---- MODULE Spec2Model ----
(***************************************************************************)
(* e310x-hal SPI: the QSPI controller (registers, TX/RX FIFOs), the byte   *)
(* pumps of SpiBus and of the legacy Spi (blocking and cooperative), and   *)
(* the SharedBus / SpiSharedDevice arbitration.                            *)
(***************************************************************************)
EXTENDS Integers, Sequences, FiniteSets, TLC

(* ------------------------------ bounds -------------------------------- *)
\* longest buffer handed to a pump
MaxLen == 2
\* depth of the TX FIFO and of the RX FIFO of the modelled controller
FifoDepth == 1
\* register polls without progress that one pump run may record
MaxSpin == 1
\* device operations started in one run of the shared bus
MaxOps == 3
\* width in bits at which the u32 arithmetic of Spi::new is carried out
WordBits == 4

\* byte values the buffers are drawn from (0 is also the filler value)
Bytes == {0, 17}
\* what an earlier non-blocking operation may have left in the shift
\* register or in the RX FIFO: nothing, or one byte
Leftover == {<<>>, <<90>>}

(* --------------------- chip-select mode encodings --------------------- *)
\* csmode 0: AUTO, CS toggles per frame ("per-word" in the legacy driver)
CsAuto == 0
\* csmode 2: HOLD, CS stays asserted ("per-frame" in the legacy driver)
CsHold == 2
\* csmode 3: OFF, no hardware control of CS
CsOff == 3

VARIABLES
    regs,      \* controller registers (csmode, sckdiv, ...)
    txfifo,    \* TX FIFO, head is the next byte to shift out
    shreg,     \* the shift register: <<>> or the one byte on the wire
    rxfifo,    \* RX FIFO, head is the next byte rxdata returns
    rxlost,    \* TRUE once a received byte met a full RX FIFO
    wire,      \* what the far end answers: "loopback" or "invert"
    scn,       \* which call is being exercised
    arg,       \* the buffers the call was given, whether a byte of an
               \* earlier send was still on the wire when it was made, and
               \* whether both FIFOs were empty then
    p,         \* the pump running on the controller
    q,         \* a second pump fed the same register answers (or none)
    spins,     \* polls without progress recorded so far
    cfg,       \* the SpiConfig each shared device stores
    cpu,       \* who executes: "main", "isr" (the interrupt handler), "halt"
    mie,       \* mstatus.MIE: interrupts enabled
    borrowed,  \* the RefCell in SharedBus is mutably borrowed
    ctx,       \* per execution context: the device operation in progress
    ops,       \* device operations started so far
    acclog,    \* the operations that touched the controller, in order, a
               \* run of accesses by one operation written once
    last       \* the bus primitive executed last, with its inputs

sysv == <<cfg, cpu, mie, borrowed, ctx, ops, last>>

vars == <<regs, txfifo, shreg, rxfifo, rxlost, wire, scn, arg, p, q, spins,
          cfg, cpu, mie, borrowed, ctx, ops, acclog, last>>

(* ------------------------------ helpers ------------------------------- *)
Max(a, b) == IF a < b THEN b ELSE a

\* all sequences over S of length at most n
RECURSIVE SeqsUpTo(_, _)
SeqsUpTo(S, n) ==
    IF n = 0 THEN {<<>>}
    ELSE LET shorter == SeqsUpTo(S, n - 1)
         IN shorter \cup {Append(s, x) : s \in {t \in shorter : Len(t) = n - 1}, x \in S}

Zeros(n) == [i \in 1..n |-> 0]

\* one register access: which register and direction, and the value moved
Acc(kind, v) == <<kind, v>>

\* slice.get(i).unwrap_or(&0)
GetOr0(s, i) == IF i < Len(s) THEN s[i + 1] ELSE 0

(* ------------------------------ hardware ------------------------------ *)
\* txdata.full
TxFull == Len(txfifo) = FifoDepth

\* what a read of rxdata returns: -1 for "empty", else the head byte
RxData == IF rxfifo = <<>> THEN -1 ELSE Head(rxfifo)

\* a read of rxdata dequeues the byte it returns
RxAfterRead == IF rxfifo = <<>> THEN rxfifo ELSE Tail(rxfifo)

\* the byte the far end returns while b is shifted out
Respond(b) == IF wire = "loopback" THEN b ELSE 255 - b

\* the controller moves the head of the TX FIFO into the shift register
HwShiftOut ==
    /\ txfifo # <<>>
    /\ shreg = <<>>
    /\ shreg' = <<Head(txfifo)>>
    /\ txfifo' = Tail(txfifo)
    /\ UNCHANGED <<regs, rxfifo, rxlost, wire, scn, arg, p, q, spins, sysv, acclog>>

\* the shifted word completes: the received byte enters the RX FIFO, or is
\* dropped when the RX FIFO is full
HwShiftIn ==
    /\ shreg # <<>>
    /\ shreg' = <<>>
    /\ IF Len(rxfifo) < FifoDepth
       THEN rxfifo' = Append(rxfifo, Respond(shreg[1])) /\ rxlost' = rxlost
       ELSE rxfifo' = rxfifo /\ rxlost' = TRUE
    /\ UNCHANGED <<regs, txfifo, wire, scn, arg, p, q, spins, sysv, acclog>>

(* ------------------------- the pump machines -------------------------- *)
\* One run of a pump: the code variant (op), where it stands (pc), its
\* buffers and cursors, whether its last poll called the waker (woken), the
\* register accesses it has made (log), the cursors as the running poll
\* found them (entry), whether it has been polled at all (polled), and the
\* value it has returned (ret).
\*   words: the read buffer, or the in-place buffer
\*   write: the write buffer, or what the iterator has still to yield
Machine(op, words, write) ==
    [op |-> op, pc |-> "wait", words |-> words, write |-> write,
     iwrite |-> 0, iread |-> 0, has_data |-> TRUE, read_count |-> 0,
     woken |-> FALSE, log |-> <<>>, entry |-> <<0, 0>>, polled |-> FALSE,
     ret |-> "none"]

NoPump == [Machine("none", <<>>, <<>>) EXCEPT !.pc = "done"]

BusOps == {"perform_transfer", "transfer_in_place", "write_iter"}
SpiOps == {"spi_transfer", "spi_write", "spi_write_iter"}
AsyncOps == {"async_transfer", "async_write"}
\* all the cooperative calls: those two and AsyncWriteIter::async_write_iter
CoopOps == AsyncOps \cup {"async_write_iter"}

\* SpiBus::perform_transfer(read, write): cursors at 0, then wait_for_rxfifo
perform_transfer(read, write) == Machine("perform_transfer", read, write)

\* SpiBusRead::read
SpiBusRead_read(words) == perform_transfer(words, <<>>)

\* write, had it passed its buffer as the read buffer
SpiBusWrite_write_Swapped(words) == perform_transfer(words, <<>>)

\* SpiBusWrite::write
SpiBusWrite_write(words) == perform_transfer(<<>>, words)

\* SpiBusTransfer::transfer
SpiBusTransfer_transfer(read, write) == perform_transfer(read, write)

\* SpiBusTransfer::transfer_in_place
transfer_in_place(words) == Machine("transfer_in_place", words, <<>>)

\* legacy Spi: Transfer::transfer, Write::write, WriteIter::write_iter
Spi_transfer(words) == Machine("spi_transfer", words, <<>>)
Spi_write(words) == Machine("spi_write", <<>>, words)
Spi_write_iter(items) == Machine("spi_write_iter", <<>>, items)

\* legacy Spi: AsyncTransfer::async_transfer, AsyncWrite::async_write
Spi_async_transfer(data) == Machine("async_transfer", data, <<>>)
Spi_async_write(data) == Machine("async_write", <<>>, data)
Spi_async_write_iter(iter) == Machine("async_write_iter", <<>>, iter)

(* the `while` conditions *)
perform_transfer_cond(m) ==
    LET bytes == Max(Len(m.words), Len(m.write))
    IN m.iwrite < bytes \/ m.iread < bytes

transfer_in_place_cond(m) == m.iwrite < Len(m.words) \/ m.iread < Len(m.words)

Spi_transfer_cond(m) == m.iwrite < Len(m.words) \/ m.iread < Len(m.words)

Spi_write_cond(m) == m.iwrite < Len(m.write) \/ m.iread < Len(m.write)

Spi_write_iter_cond(m) == m.has_data \/ m.read_count > 0

AsyncTransferFuture_cond(m) == m.iwrite < Len(m.words) \/ m.iread < Len(m.words)

AsyncWriteFuture_cond(m) == m.iwrite < Len(m.write) \/ m.iread < Len(m.write)

AsyncWriteIterFuture_cond(m) == m.has_data \/ m.read_count > 0

LoopCond(m) ==
    CASE m.op = "perform_transfer" -> perform_transfer_cond(m)
      [] m.op = "transfer_in_place" -> transfer_in_place_cond(m)
      [] m.op = "spi_transfer" -> Spi_transfer_cond(m)
      [] m.op = "spi_write" -> Spi_write_cond(m)
      [] m.op \in {"spi_write_iter", "write_iter"} -> Spi_write_iter_cond(m)
      [] m.op = "async_transfer" -> AsyncTransferFuture_cond(m)
      [] m.op = "async_write" -> AsyncWriteFuture_cond(m)
      [] m.op = "async_write_iter" -> AsyncWriteIterFuture_cond(m)
      [] OTHER -> FALSE

\* where control goes when the `while` condition is evaluated: into the
\* body, or past the loop (return Ok for the bus pumps, the csmode
\* write-back for the legacy ones)
\* the loop, had it given up after a few register accesses without an end
LoopPc_GivesUp(m) ==
    IF LoopCond(m) /\ Len(m.log) < 3 THEN "tx"
    ELSE IF m.op \in BusOps THEN "done" ELSE "end"

LoopPc(m) ==
    IF LoopCond(m) THEN "tx"
    ELSE IF m.op \in BusOps THEN "done" ELSE "end"

\* the loop exit, had an overrun of the RX FIFO been reported as an error
AtLoop_ErrOnOverrun(m) ==
    [m EXCEPT !.pc = LoopPc(m),
              !.ret = IF LoopPc(m) # "done" THEN @
                      ELSE IF rxlost THEN "Err" ELSE "Ok"]

AtLoop(m) ==
    [m EXCEPT !.pc = LoopPc(m),
              !.ret = IF LoopPc(m) = "done" THEN "Ok" ELSE @]

\* the drain, had it read rxdata once and gone on whatever the answer
wait_for_rxfifo_Once(m, rx) ==
    LET m1 == [m EXCEPT !.log = Append(@, Acc("rrx", rx))]
    IN IF m.op \in BusOps THEN AtLoop(m1) ELSE [m1 EXCEPT !.pc = "frame"]

(* wait_for_rxfifo: one poll of `while rxdata.read().empty().bit_is_clear()` *)
wait_for_rxfifo(m, rx) ==
    LET m1 == [m EXCEPT !.log = Append(@, Acc("rrx", rx))]
    IN IF rx # -1 THEN m1
       ELSE IF m.op \in BusOps THEN AtLoop(m1) ELSE [m1 EXCEPT !.pc = "frame"]

(* the first half of a loop body: the TX attempt.  Result: the machine and
   the bytes written to txdata. *)
perform_transfer_tx(m, full) ==
    IF m.iwrite < Len(m.write)
    THEN IF ~full
         THEN LET byte == GetOr0(m.write, m.iwrite)
              IN [m |-> [m EXCEPT !.iwrite = @ + 1, !.pc = "rx",
                                  !.log = @ \o <<Acc("rtx", 0), Acc("wtx", byte)>>],
                  push |-> <<byte>>]
         ELSE [m |-> [m EXCEPT !.pc = "rx", !.log = Append(@, Acc("rtx", 1))],
               push |-> <<>>]
    ELSE [m |-> [m EXCEPT !.pc = "rx"], push |-> <<>>]

transfer_in_place_tx(m, full) ==
    IF m.iwrite < Len(m.words)
    THEN IF ~full
         THEN LET byte == m.words[m.iwrite + 1]
              IN [m |-> [m EXCEPT !.iwrite = @ + 1, !.pc = "rx",
                                  !.log = @ \o <<Acc("rtx", 0), Acc("wtx", byte)>>],
                  push |-> <<byte>>]
         ELSE [m |-> [m EXCEPT !.pc = "rx", !.log = Append(@, Acc("rtx", 1))],
               push |-> <<>>]
    ELSE [m |-> [m EXCEPT !.pc = "rx"], push |-> <<>>]

Spi_transfer_tx(m, full) ==
    IF m.iwrite < Len(m.words)
    THEN IF ~full
         THEN LET byte == m.words[m.iwrite + 1]
              IN [m |-> [m EXCEPT !.iwrite = @ + 1, !.pc = "rx",
                                  !.log = @ \o <<Acc("rtx", 0), Acc("wtx", byte)>>],
                  push |-> <<byte>>]
         ELSE [m |-> [m EXCEPT !.pc = "rx", !.log = Append(@, Acc("rtx", 1))],
               push |-> <<>>]
    ELSE [m |-> [m EXCEPT !.pc = "rx"], push |-> <<>>]

Spi_write_tx(m, full) ==
    IF m.iwrite < Len(m.write)
    THEN IF ~full
         THEN LET byte == m.write[m.iwrite + 1]
              IN [m |-> [m EXCEPT !.iwrite = @ + 1, !.pc = "rx",
                                  !.log = @ \o <<Acc("rtx", 0), Acc("wtx", byte)>>],
                  push |-> <<byte>>]
         ELSE [m |-> [m EXCEPT !.pc = "rx", !.log = Append(@, Acc("rtx", 1))],
               push |-> <<>>]
    ELSE [m |-> [m EXCEPT !.pc = "rx"], push |-> <<>>]

\* the TX attempt, had it gone on asking an iterator that returned None
Spi_write_iter_tx_NoneIgnored(m, full) ==
    IF m.has_data
    THEN IF ~full
         THEN IF m.write # <<>>
              THEN LET byte == Head(m.write)
                   IN [m |-> [m EXCEPT !.write = Tail(@), !.read_count = @ + 1,
                                       !.pc = "rx",
                                       !.log = @ \o <<Acc("rtx", 0), Acc("next", byte),
                                                      Acc("wtx", byte)>>],
                       push |-> <<byte>>]
              ELSE [m |-> [m EXCEPT !.pc = "rx",
                                    !.log = @ \o <<Acc("rtx", 0), Acc("next", -1)>>],
                    push |-> <<>>]
         ELSE [m |-> [m EXCEPT !.pc = "rx", !.log = Append(@, Acc("rtx", 1))],
               push |-> <<>>]
    ELSE [m |-> [m EXCEPT !.pc = "rx"], push |-> <<>>]

\* (the log also lists the calls of iter.next(), with the byte yielded, or
\* -1 for None)
Spi_write_iter_tx(m, full) ==
    IF m.has_data
    THEN IF ~full
         THEN IF m.write # <<>>
              THEN LET byte == Head(m.write)
                   IN [m |-> [m EXCEPT !.write = Tail(@), !.read_count = @ + 1,
                                       !.pc = "rx",
                                       !.log = @ \o <<Acc("rtx", 0), Acc("next", byte),
                                                      Acc("wtx", byte)>>],
                       push |-> <<byte>>]
              ELSE [m |-> [m EXCEPT !.has_data = FALSE, !.pc = "rx",
                                    !.log = @ \o <<Acc("rtx", 0), Acc("next", -1)>>],
                    push |-> <<>>]
         ELSE [m |-> [m EXCEPT !.pc = "rx", !.log = Append(@, Acc("rtx", 1))],
               push |-> <<>>]
    ELSE [m |-> [m EXCEPT !.pc = "rx"], push |-> <<>>]

AsyncTransferFuture_poll_tx(m, full) ==
    IF m.iwrite < Len(m.words)
    THEN IF ~full
         THEN LET byte == m.words[m.iwrite + 1]
              IN [m |-> [m EXCEPT !.iwrite = @ + 1, !.pc = "rx",
                                  !.log = @ \o <<Acc("rtx", 0), Acc("wtx", byte)>>],
                  push |-> <<byte>>]
         ELSE [m |-> [m EXCEPT !.pc = "rx", !.log = Append(@, Acc("rtx", 1))],
               push |-> <<>>]
    ELSE [m |-> [m EXCEPT !.pc = "rx"], push |-> <<>>]

AsyncWriteFuture_poll_tx(m, full) ==
    IF m.iwrite < Len(m.write)
    THEN IF ~full
         THEN LET byte == m.write[m.iwrite + 1]
              IN [m |-> [m EXCEPT !.iwrite = @ + 1, !.pc = "rx",
                                  !.log = @ \o <<Acc("rtx", 0), Acc("wtx", byte)>>],
                  push |-> <<byte>>]
         ELSE [m |-> [m EXCEPT !.pc = "rx", !.log = Append(@, Acc("rtx", 1))],
               push |-> <<>>]
    ELSE [m |-> [m EXCEPT !.pc = "rx"], push |-> <<>>]

\* (m.write is what the iterator has still to yield; an empty m.write is
\* an iterator whose next() returns None)
AsyncWriteIterFuture_poll_tx(m, full) ==
    IF m.has_data
    THEN IF ~full
         THEN IF m.write # <<>>
              THEN LET byte == Head(m.write)
                   IN [m |-> [m EXCEPT !.write = Tail(@), !.read_count = @ + 1,
                                       !.pc = "rx",
                                       !.log = @ \o <<Acc("rtx", 0), Acc("next", byte),
                                                      Acc("wtx", byte)>>],
                       push |-> <<byte>>]
              ELSE [m |-> [m EXCEPT !.has_data = FALSE, !.pc = "rx",
                                    !.log = @ \o <<Acc("rtx", 0), Acc("next", -1)>>],
                    push |-> <<>>]
         ELSE [m |-> [m EXCEPT !.pc = "rx", !.log = Append(@, Acc("rtx", 1))],
               push |-> <<>>]
    ELSE [m |-> [m EXCEPT !.pc = "rx"], push |-> <<>>]

TxStep(m, full) ==
    CASE m.op = "perform_transfer" -> perform_transfer_tx(m, full)
      [] m.op = "transfer_in_place" -> transfer_in_place_tx(m, full)
      [] m.op = "spi_transfer" -> Spi_transfer_tx(m, full)
      [] m.op = "spi_write" -> Spi_write_tx(m, full)
      [] m.op \in {"spi_write_iter", "write_iter"} -> Spi_write_iter_tx(m, full)
      [] m.op = "async_transfer" -> AsyncTransferFuture_poll_tx(m, full)
      [] m.op = "async_write" -> AsyncWriteFuture_poll_tx(m, full)
      [] m.op = "async_write_iter" -> AsyncWriteIterFuture_poll_tx(m, full)
      [] OTHER -> [m |-> m, push |-> <<>>]

(* the second half of a loop body: the RX attempt.  Result: the machine and
   whether rxdata was read (a read dequeues the byte it returns). *)
\* the RX attempt, had it stored the byte at the write cursor
perform_transfer_rx_AtWriteCursor(m, rx) ==
    IF m.iread < m.iwrite
    THEN IF rx # -1
         THEN [m |-> AtLoop([m EXCEPT
                        !.words = IF m.iwrite <= Len(@)
                                  THEN [@ EXCEPT ![m.iwrite] = rx] ELSE @,
                        !.iread = @ + 1,
                        !.log = Append(@, Acc("rrx", rx))]),
               read |-> TRUE]
         ELSE [m |-> AtLoop([m EXCEPT !.log = Append(@, Acc("rrx", rx))]),
               read |-> TRUE]
    ELSE [m |-> AtLoop(m), read |-> FALSE]

\* the RX attempt, had it not compared the cursors
perform_transfer_rx_Unguarded(m, rx) ==
    IF rx # -1
    THEN [m |-> AtLoop([m EXCEPT
                   !.words = IF m.iread < Len(@)
                             THEN [@ EXCEPT ![m.iread + 1] = rx] ELSE @,
                   !.iread = @ + 1,
                   !.log = Append(@, Acc("rrx", rx))]),
          read |-> TRUE]
    ELSE [m |-> AtLoop([m EXCEPT !.log = Append(@, Acc("rrx", rx))]),
          read |-> TRUE]

perform_transfer_rx(m, rx) ==
    IF m.iread < m.iwrite
    THEN IF rx # -1
         THEN [m |-> AtLoop([m EXCEPT
                        !.words = IF m.iread < Len(@)
                                  THEN [@ EXCEPT ![m.iread + 1] = rx] ELSE @,
                        !.iread = @ + 1,
                        !.log = Append(@, Acc("rrx", rx))]),
               read |-> TRUE]
         ELSE [m |-> AtLoop([m EXCEPT !.log = Append(@, Acc("rrx", rx))]),
               read |-> TRUE]
    ELSE [m |-> AtLoop(m), read |-> FALSE]

\* the RX attempt, had it stored the byte at the place of the next byte to
\* send
transfer_in_place_rx_StoresAhead(m, rx) ==
    IF m.iread < m.iwrite
    THEN IF rx # -1
         THEN [m |-> AtLoop([m EXCEPT
                        !.words = IF m.iwrite < Len(@)
                                  THEN [@ EXCEPT ![m.iwrite + 1] = rx] ELSE @,
                        !.iread = @ + 1,
                        !.log = Append(@, Acc("rrx", rx))]),
               read |-> TRUE]
         ELSE [m |-> AtLoop([m EXCEPT !.log = Append(@, Acc("rrx", rx))]),
               read |-> TRUE]
    ELSE [m |-> AtLoop(m), read |-> FALSE]

transfer_in_place_rx(m, rx) ==
    IF m.iread < m.iwrite
    THEN IF rx # -1
         THEN [m |-> AtLoop([m EXCEPT !.words[m.iread + 1] = rx,
                                      !.iread = @ + 1,
                                      !.log = Append(@, Acc("rrx", rx))]),
               read |-> TRUE]
         ELSE [m |-> AtLoop([m EXCEPT !.log = Append(@, Acc("rrx", rx))]),
               read |-> TRUE]
    ELSE [m |-> AtLoop(m), read |-> FALSE]

Spi_transfer_rx(m, rx) ==
    IF m.iread < m.iwrite
    THEN IF rx # -1
         THEN [m |-> AtLoop([m EXCEPT !.words[m.iread + 1] = rx,
                                      !.iread = @ + 1,
                                      !.log = Append(@, Acc("rrx", rx))]),
               read |-> TRUE]
         ELSE [m |-> AtLoop([m EXCEPT !.log = Append(@, Acc("rrx", rx))]),
               read |-> TRUE]
    ELSE [m |-> AtLoop(m), read |-> FALSE]

\* the RX attempt, had it counted a read of the empty RX FIFO as a byte
Spi_write_rx_CountsEmpty(m, rx) ==
    IF m.iread < m.iwrite
    THEN [m |-> AtLoop([m EXCEPT !.iread = @ + 1,
                                 !.log = Append(@, Acc("rrx", rx))]),
          read |-> TRUE]
    ELSE [m |-> AtLoop(m), read |-> FALSE]

Spi_write_rx(m, rx) ==
    IF m.iread < m.iwrite
    THEN IF rx # -1
         THEN [m |-> AtLoop([m EXCEPT !.iread = @ + 1,
                                      !.log = Append(@, Acc("rrx", rx))]),
               read |-> TRUE]
         ELSE [m |-> AtLoop([m EXCEPT !.log = Append(@, Acc("rrx", rx))]),
               read |-> TRUE]
    ELSE [m |-> AtLoop(m), read |-> FALSE]

Spi_write_iter_rx(m, rx) ==
    IF m.read_count > 0
    THEN IF rx # -1
         THEN [m |-> AtLoop([m EXCEPT !.read_count = @ - 1,
                                      !.log = Append(@, Acc("rrx", rx))]),
               read |-> TRUE]
         ELSE [m |-> AtLoop([m EXCEPT !.log = Append(@, Acc("rrx", rx))]),
               read |-> TRUE]
    ELSE [m |-> AtLoop(m), read |-> FALSE]

\* the poll, had it stored the byte at the write cursor
AsyncTransferFuture_poll_rx_AtWriteCursor(m, rx) ==
    IF m.iread < m.iwrite
    THEN IF rx # -1
         THEN [m |-> AtLoop([m EXCEPT !.words[m.iwrite] = rx,
                                      !.iread = @ + 1,
                                      !.log = Append(@, Acc("rrx", rx))]),
               read |-> TRUE]
         ELSE [m |-> [m EXCEPT !.log = Append(@, Acc("rrx", rx)),
                               !.woken = TRUE, !.pc = "suspended"],
               read |-> TRUE]
    ELSE [m |-> AtLoop(m), read |-> FALSE]

\* on an empty RX FIFO the poll calls the waker and returns Pending
AsyncTransferFuture_poll_rx(m, rx) ==
    IF m.iread < m.iwrite
    THEN IF rx # -1
         THEN [m |-> AtLoop([m EXCEPT !.words[m.iread + 1] = rx,
                                      !.iread = @ + 1,
                                      !.log = Append(@, Acc("rrx", rx))]),
               read |-> TRUE]
         ELSE [m |-> [m EXCEPT !.log = Append(@, Acc("rrx", rx)),
                               !.woken = TRUE, !.pc = "suspended"],
               read |-> TRUE]
    ELSE [m |-> AtLoop(m), read |-> FALSE]

\* the poll, had it returned Pending after one pass of the loop body
AsyncWriteFuture_poll_rx_OneStep(m, rx) ==
    IF m.iread < m.iwrite
    THEN IF rx # -1
         THEN [m |-> [m EXCEPT !.iread = @ + 1,
                               !.log = Append(@, Acc("rrx", rx)),
                               !.woken = TRUE, !.pc = "suspended"],
               read |-> TRUE]
         ELSE [m |-> [m EXCEPT !.log = Append(@, Acc("rrx", rx)),
                               !.woken = TRUE, !.pc = "suspended"],
               read |-> TRUE]
    ELSE [m |-> [m EXCEPT !.woken = TRUE, !.pc = "suspended"], read |-> FALSE]

AsyncWriteFuture_poll_rx(m, rx) ==
    IF m.iread < m.iwrite
    THEN IF rx # -1
         THEN [m |-> AtLoop([m EXCEPT !.iread = @ + 1,
                                      !.log = Append(@, Acc("rrx", rx))]),
               read |-> TRUE]
         ELSE [m |-> [m EXCEPT !.log = Append(@, Acc("rrx", rx)),
                               !.woken = TRUE, !.pc = "suspended"],
               read |-> TRUE]
    ELSE [m |-> AtLoop(m), read |-> FALSE]

\* the poll, had it returned Pending without calling the waker
AsyncWriteIterFuture_poll_rx_NoWake(m, rx) ==
    IF m.read_count > 0
    THEN IF rx # -1
         THEN [m |-> AtLoop([m EXCEPT !.read_count = @ - 1,
                                      !.log = Append(@, Acc("rrx", rx))]),
               read |-> TRUE]
         ELSE [m |-> [m EXCEPT !.log = Append(@, Acc("rrx", rx)),
                               !.pc = "suspended"],
               read |-> TRUE]
    ELSE [m |-> AtLoop(m), read |-> FALSE]

AsyncWriteIterFuture_poll_rx(m, rx) ==
    IF m.read_count > 0
    THEN IF rx # -1
         THEN [m |-> AtLoop([m EXCEPT !.read_count = @ - 1,
                                      !.log = Append(@, Acc("rrx", rx))]),
               read |-> TRUE]
         ELSE [m |-> [m EXCEPT !.log = Append(@, Acc("rrx", rx)),
                               !.woken = TRUE, !.pc = "suspended"],
               read |-> TRUE]
    ELSE [m |-> AtLoop(m), read |-> FALSE]

RxStep(m, rx) ==
    CASE m.op = "perform_transfer" -> perform_transfer_rx(m, rx)
      [] m.op = "transfer_in_place" -> transfer_in_place_rx(m, rx)
      [] m.op = "spi_transfer" -> Spi_transfer_rx(m, rx)
      [] m.op = "spi_write" -> Spi_write_rx(m, rx)
      [] m.op \in {"spi_write_iter", "write_iter"} -> Spi_write_iter_rx(m, rx)
      [] m.op = "async_transfer" -> AsyncTransferFuture_poll_rx(m, rx)
      [] m.op = "async_write" -> AsyncWriteFuture_poll_rx(m, rx)
      [] m.op = "async_write_iter" -> AsyncWriteIterFuture_poll_rx(m, rx)
      [] OTHER -> [m |-> m, read |-> FALSE]

(* legacy chip-select helpers, on the value of the csmode register *)
\* cs_mode_word, had it written nothing
cs_mode_word_Skipped(csmode) == csmode

\* Spi::cs_mode_word
cs_mode_word(csmode) == IF csmode # 3 THEN 0 ELSE csmode

\* cs_mode_frame, had it not looked at the mode first
cs_mode_frame_Unconditional(csmode) == 2

\* Spi::cs_mode_frame
cs_mode_frame(csmode) == IF csmode # 3 THEN 2 ELSE csmode

\* the write-back, had it not looked at the mode first
poll_cs_mode_word_Unconditional(csmode) == 0

\* the csmode write-back inlined at the end of the cooperative polls
poll_cs_mode_word(csmode) == IF csmode # 3 THEN 0 ELSE csmode

\* after the RX drain: the legacy calls set the frame mode and enter the
\* loop; the cooperative ones set it and hand back the transfer object
FrameStep(m) ==
    IF m.op \in CoopOps THEN [m EXCEPT !.pc = "suspended"] ELSE AtLoop(m)

\* Future::poll entered: the `while` condition is evaluated
PollStep(m) ==
    AtLoop([m EXCEPT !.woken = FALSE, !.polled = TRUE,
                     !.entry = <<m.iwrite, m.iread>>])

\* past the loop: csmode written back, Ok / Poll::Ready returned
EndStep(m) == [m EXCEPT !.pc = "done", !.ret = "Ok"]

EndCsMode(m, csmode) ==
    IF m.op \in CoopOps THEN poll_cs_mode_word(csmode) ELSE cs_mode_word(csmode)

(* --------------------------- SpiBus primitives ------------------------ *)
\* the cast, had it kept the whole u32
AsU16_NoTruncation(x) == x

\* `as u16`
AsU16(x) == x % 65536

\* start_frame, had it not looked at the mode
start_frame_Unconditional(r) == [r EXCEPT !.csmode = CsHold]

\* SpiBus::start_frame
start_frame(r) == IF r.csmode # CsOff THEN [r EXCEPT !.csmode = CsHold] ELSE r

\* SpiBus::end_frame
\* end_frame, had it left the chip-select mode as it found it
end_frame_ModeKept(r) == r

end_frame(r) == IF r.csmode # CsOff THEN [r EXCEPT !.csmode = CsAuto] ELSE r

\* configure, had it left the chip-select id as it finds it
configure_CsidKept(r, config, cs_index) ==
    LET r1 == [r EXCEPT
                 !.sckdiv = AsU16(config.clock_divisor),
                 !.csmode = config.cs_mode,
                 !.csdef = "reset",
                 !.pha = config.pha,
                 !.pol = config.pol,
                 !.fmt = [proto |-> "single", endian |-> "big", dir |-> "rx",
                          len |-> 8],
                 !.txmark = config.txmark,
                 !.rxmark = config.rxmark,
                 !.cssck = config.cssck,
                 !.sckcs = config.sckcs,
                 !.intercs = config.intercs,
                 !.interxfr = config.interxfr]
    IN end_frame(r1)

\* configure, had it not ended with end_frame
configure_NoEndFrame(r, config, cs_index) ==
    LET r1 == [r EXCEPT !.sckdiv = AsU16(config.clock_divisor)]
        r2 == IF cs_index # <<>> THEN [r1 EXCEPT !.csid = cs_index[1]] ELSE r1
    IN [r2 EXCEPT
          !.csmode = config.cs_mode,
          !.csdef = "reset",
          !.pha = config.pha,
          !.pol = config.pol,
          !.fmt = [proto |-> "single", endian |-> "big", dir |-> "rx", len |-> 8],
          !.txmark = config.txmark,
          !.rxmark = config.rxmark,
          !.cssck = config.cssck,
          !.sckcs = config.sckcs,
          !.intercs = config.intercs,
          !.interxfr = config.interxfr]

\* configure, had it selected line 0 when given no chip-select index
configure_CsidCleared(r, config, cs_index) ==
    LET r1 == [r EXCEPT !.sckdiv = AsU16(config.clock_divisor)]
        r2 == [r1 EXCEPT !.csid = IF cs_index # <<>> THEN cs_index[1] ELSE 0]
        r3 == [r2 EXCEPT
                 !.csmode = config.cs_mode,
                 !.csdef = "reset",
                 !.pha = config.pha,
                 !.pol = config.pol,
                 !.fmt = [proto |-> "single", endian |-> "big", dir |-> "rx",
                          len |-> 8],
                 !.txmark = config.txmark,
                 !.rxmark = config.rxmark,
                 !.cssck = config.cssck,
                 !.sckcs = config.sckcs,
                 !.intercs = config.intercs,
                 !.interxfr = config.interxfr]
    IN end_frame(r3)

\* configure, had it left the format register alone
configure_FmtKept(r, config, cs_index) ==
    LET r1 == [r EXCEPT !.sckdiv = AsU16(config.clock_divisor)]
        r2 == IF cs_index # <<>> THEN [r1 EXCEPT !.csid = cs_index[1]] ELSE r1
        r3 == [r2 EXCEPT
                 !.csmode = config.cs_mode,
                 !.csdef = "reset",
                 !.pha = config.pha,
                 !.pol = config.pol,
                 !.txmark = config.txmark,
                 !.rxmark = config.rxmark,
                 !.cssck = config.cssck,
                 !.sckcs = config.sckcs,
                 !.intercs = config.intercs,
                 !.interxfr = config.interxfr]
    IN end_frame(r3)

\* configure, had it left the delay1 register (inter-frame and intra-frame
\* delays) as it was
configure_Delay1Kept(r, config, cs_index) ==
    LET r1 == [r EXCEPT !.sckdiv = AsU16(config.clock_divisor)]
        r2 == IF cs_index # <<>> THEN [r1 EXCEPT !.csid = cs_index[1]] ELSE r1
        r3 == [r2 EXCEPT
                 !.csmode = config.cs_mode,
                 !.csdef = "reset",
                 !.pha = config.pha,
                 !.pol = config.pol,
                 !.fmt = [proto |-> "single", endian |-> "big", dir |-> "rx",
                          len |-> 8],
                 !.txmark = config.txmark,
                 !.rxmark = config.rxmark,
                 !.cssck = config.cssck,
                 !.sckcs = config.sckcs]
    IN end_frame(r3)

\* SpiBus::configure(config, cs_index); Option<u32> is <<>> or <<index>>
configure(r, config, cs_index) ==
    LET r1 == [r EXCEPT !.sckdiv = AsU16(config.clock_divisor)]
        r2 == IF cs_index # <<>> THEN [r1 EXCEPT !.csid = cs_index[1]] ELSE r1
        r3 == [r2 EXCEPT
                 !.csmode = config.cs_mode,
                 !.csdef = "reset",
                 !.pha = config.pha,
                 !.pol = config.pol,
                 !.fmt = [proto |-> "single", endian |-> "big", dir |-> "rx",
                          len |-> 8],
                 !.txmark = config.txmark,
                 !.rxmark = config.rxmark,
                 !.cssck = config.cssck,
                 !.sckcs = config.sckcs,
                 !.intercs = config.intercs,
                 !.interxfr = config.interxfr]
    IN end_frame(r3)

\* the write_iter of the bus that SpiSharedDevice::try_write_iter calls: the
\* loop of WriteIter::write_iter, framed by the caller
SpiBus_write_iter(items) == Machine("write_iter", <<>>, items)

\* SpiBusFlush::flush: no loop, no register access
SpiBusFlush_flush == [Machine("flush", <<>>, <<>>) EXCEPT !.pc = "flush"]

(* ----------------------- execution contexts --------------------------- *)
\* Device A is used by the main program, device B by an interrupt handler.
Ctxs == {"main", "isr"}

Devs == {"A", "B"}

DevOf(c) == IF c = "main" THEN "A" ELSE "B"

\* PinCS::CS_INDEX of the chip-select pin each device owns
CS_INDEX(d) == IF d = "A" THEN 0 ELSE 3

\* the operations of SpiSharedDevice
FrameOps == {"try_transfer", "try_write", "try_write_iter"}
NbOps == {"try_read", "try_send"}
\* SharedBus::start_frame, SharedBus::end_frame
PrimOps == {"start_frame", "end_frame"}

CtxIdle ==
    [pc |-> "idle", op |-> "none", words |-> <<>>, saved |-> FALSE,
     txn |-> 0, frames |-> <<>>, result |-> "none"]

\* inside interrupt::free, after interrupts are disabled
CritPcs == {"borrow", "configure", "start", "pump", "nb", "prim", "end", "release"}

\* the operation that is touching the controller
Owner == <<DevOf(cpu), ctx[cpu].txn>>

Touch(log, who) ==
    IF log # <<>> /\ log[Len(log)] = who THEN log ELSE Append(log, who)

\* a Configuration; all of them are drawn from here
ConfigA ==
    [clock_divisor |-> 7, pha |-> FALSE, pol |-> FALSE, cs_mode |-> CsHold,
     txmark |-> 1, rxmark |-> 0,
     cssck |-> 1, sckcs |-> 1, intercs |-> 1, interxfr |-> 0]

ConfigB ==
    [clock_divisor |-> 31, pha |-> TRUE, pol |-> TRUE, cs_mode |-> CsAuto,
     txmark |-> 3, rxmark |-> 2,
     cssck |-> 4, sckcs |-> 5, intercs |-> 6, interxfr |-> 7]

ConfigC == [ConfigA EXCEPT !.cs_mode = CsOff, !.pha = TRUE]

SharedConfigs == {ConfigA, ConfigB, ConfigC}

\* (config: the Configuration handed to configure; cs_mode is its mode)
NoCall ==
    [name |-> "none", cs_mode |-> CsAuto, cs_index |-> <<>>, prior |-> CsAuto,
     config |-> ConfigA]

(* --------------------------- pump actions ----------------------------- *)
\* p runs on the controller.  q, when present, is a blocking pump that is
\* given the answers p gets, step for step.
Shadow(m) == IF q.op # "none" /\ q.pc = p.pc THEN m ELSE q

\* a pump called by a device runs while its caller runs
PumpRuns == scn # "shared" \/ (cpu \in Ctxs /\ ctx[cpu].pc = "pump")

\* (for an exclusive device the log lists the calls made on the bus, and
\* the accesses of the pump of transaction number `ops` are one entry)
PumpTouch(accessed) ==
    IF scn = "shared" /\ accessed THEN Touch(acclog, Owner)
    ELSE IF scn = "excl" /\ accessed THEN Touch(acclog, <<"pump", ops>>)
    ELSE acclog

\* one poll of the RX drain before the loop
PumpWait ==
    /\ PumpRuns
    /\ p.pc = "wait"
    /\ p' = wait_for_rxfifo(p, RxData)
    /\ q' = Shadow(wait_for_rxfifo(q, RxData))
    /\ rxfifo' = RxAfterRead
    /\ acclog' = PumpTouch(TRUE)
    /\ UNCHANGED <<regs, txfifo, shreg, rxlost, wire, scn, arg, spins, sysv>>

\* cs_mode_frame of the legacy calls
PumpFrame ==
    /\ PumpRuns
    /\ p.pc = "frame"
    /\ regs' = [regs EXCEPT !.csmode = cs_mode_frame(@)]
    /\ p' = FrameStep(p)
    /\ q' = Shadow(FrameStep(q))
    /\ UNCHANGED <<txfifo, shreg, rxfifo, rxlost, wire, scn, arg, spins, sysv, acclog>>

\* the scheduler polls the suspended transfer object: once when it is
\* handed the object, and from then on only after the waker was called
Poll ==
    /\ PumpRuns
    /\ p.pc = "suspended"
    /\ ~p.polled \/ p.woken
    /\ p' = PollStep(p)
    /\ UNCHANGED <<regs, txfifo, shreg, rxfifo, rxlost, wire, scn, arg, q, spins,
                   sysv, acclog>>

\* the TX attempt of one loop iteration
PumpTx ==
    /\ PumpRuns
    /\ p.pc = "tx"
    /\ LET r == TxStep(p, TxFull)
           spin == TxFull /\ r.m.log # p.log
       IN /\ spin => spins < MaxSpin
          /\ spins' = IF spin THEN spins + 1 ELSE spins
          /\ p' = r.m
          /\ txfifo' = txfifo \o r.push
          /\ acclog' = PumpTouch(r.m.log # p.log)
    /\ q' = Shadow(TxStep(q, TxFull).m)
    /\ UNCHANGED <<regs, shreg, rxfifo, rxlost, wire, scn, arg, sysv>>

\* the RX attempt of one loop iteration
PumpRx ==
    /\ PumpRuns
    /\ p.pc = "rx"
    /\ LET r == RxStep(p, RxData)
           spin == r.read /\ RxData = -1
       IN /\ spin => spins < MaxSpin
          /\ spins' = IF spin THEN spins + 1 ELSE spins
          /\ p' = r.m
          /\ rxfifo' = IF r.read THEN RxAfterRead ELSE rxfifo
          /\ acclog' = PumpTouch(r.read)
    /\ q' = Shadow(RxStep(q, RxData).m)
    /\ UNCHANGED <<regs, txfifo, shreg, rxlost, wire, scn, arg, sysv>>

\* flush returns Ok at once
PumpFlush ==
    /\ PumpRuns
    /\ p.pc = "flush"
    /\ p' = [p EXCEPT !.pc = "done", !.ret = "Ok"]
    /\ UNCHANGED <<regs, txfifo, shreg, rxfifo, rxlost, wire, scn, arg, q, spins,
                   sysv, acclog>>

\* the csmode write-back after the loop of the legacy calls and polls
PumpEnd ==
    /\ PumpRuns
    /\ p.pc = "end"
    /\ regs' = [regs EXCEPT !.csmode = EndCsMode(p, @)]
    /\ p' = EndStep(p)
    /\ q' = Shadow(EndStep(q))
    /\ UNCHANGED <<txfifo, shreg, rxfifo, rxlost, wire, scn, arg, spins, sysv, acclog>>

(* ------------------- the pumps called on their own -------------------- *)
\* the register values after reset
RegsReset ==
    [sckdiv |-> 3, csid |-> 0, csmode |-> CsAuto, csdef |-> "reset",
     pha |-> FALSE, pol |-> FALSE,
     fmt |-> [proto |-> "single", endian |-> "big", dir |-> "tx", len |-> 8],
     txmark |-> 0, rxmark |-> 0,
     cssck |-> 1, sckcs |-> 1, intercs |-> 1, interxfr |-> 0,
     ie |-> [txwm |-> FALSE, rxwm |-> FALSE]]

\* the Configurations two devices on one bus are created with: distinct,
\* each device holding each of the three in turn
DevConfigs ==
    {[d \in {"A", "B"} |-> IF d = "A" THEN pair[1] ELSE pair[2]] :
        pair \in {<<ConfigA, ConfigB>>, <<ConfigB, ConfigC>>, <<ConfigC, ConfigA>>}}

\* no device operation in progress
SysIdle ==
    /\ cpu = "main"
    /\ mie = TRUE
    /\ borrowed = FALSE
    /\ ctx = [c \in Ctxs |-> CtxIdle]
    /\ ops = 0
    /\ acclog = <<>>
    /\ last = NoCall

PumpScenarios ==
    {"transfer", "write", "read", "transfer_in_place", "spi_transfer",
     "spi_write", "spi_write_iter", "async_transfer", "async_write",
     "async_write_iter", "flush"}

\* the call each scenario makes
PumpCall(s, read, write) ==
    CASE s = "transfer" -> SpiBusTransfer_transfer(read, write)
      [] s = "write" -> SpiBusWrite_write(write)
      [] s = "read" -> SpiBusRead_read(read)
      [] s = "transfer_in_place" -> transfer_in_place(write)
      [] s = "spi_transfer" -> Spi_transfer(write)
      [] s = "spi_write" -> Spi_write(write)
      [] s = "spi_write_iter" -> Spi_write_iter(write)
      [] s = "async_transfer" -> Spi_async_transfer(write)
      [] s = "async_write" -> Spi_async_write(write)
      [] s = "async_write_iter" -> Spi_async_write_iter(write)
      [] s = "flush" -> SpiBusFlush_flush

\* the blocking call it is compared with, on the same register answers
PumpPeer(s, read, write) ==
    CASE s = "write" -> SpiBusTransfer_transfer(<<>>, write)
      [] s = "read" -> SpiBusTransfer_transfer(read, <<>>)
      [] s = "async_transfer" -> Spi_transfer(write)
      [] s = "async_write" -> Spi_write(write)
      [] OTHER -> NoPump

\* The controller may still hold bytes of earlier non-blocking sends in its
\* TX FIFO and in its shift register, and bytes nobody read in its RX FIFO.
InitPump ==
    /\ scn \in PumpScenarios
    /\ shreg \in Leftover
    /\ txfifo \in Leftover
    /\ rxfifo \in Leftover
    /\ \E n \in 0..MaxLen, w \in SeqsUpTo(Bytes, MaxLen) :
          /\ scn \in {"read", "flush"} => w = <<>>
          /\ scn \notin {"transfer", "read"} => n = 0
          /\ arg = [read |-> Zeros(n), write |-> w,
                    inflight |-> shreg # <<>> \/ txfifo # <<>>,
                    fifosempty |-> txfifo = <<>> /\ rxfifo = <<>>]
    /\ p = PumpCall(scn, arg.read, arg.write)
    /\ q = PumpPeer(scn, arg.read, arg.write)
    /\ regs \in {[RegsReset EXCEPT !.csmode = c] :
                    c \in IF p.op \in BusOps THEN {CsAuto} ELSE {CsAuto, CsHold, CsOff}}
    /\ rxlost = FALSE
    /\ wire \in {"loopback", "invert"}
    /\ spins = 0
    /\ cfg = [d \in Devs |-> ConfigA]
    /\ SysIdle

NextPump ==
    \/ PumpWait
    \/ PumpFrame
    \/ Poll
    \/ PumpTx
    \/ PumpRx
    \/ PumpEnd
    \/ PumpFlush
    \/ HwShiftOut
    \/ HwShiftIn

SpecPump == InitPump /\ [][NextPump]_vars

\* the CPU keeps executing, the scheduler re-polls, the controller keeps
\* shifting
FairPump ==
    /\ SpecPump
    /\ WF_vars(PumpWait) /\ WF_vars(PumpFrame) /\ WF_vars(Poll)
    /\ WF_vars(PumpTx) /\ WF_vars(PumpRx) /\ WF_vars(PumpEnd)
    /\ WF_vars(PumpFlush)
    /\ WF_vars(HwShiftOut) /\ WF_vars(HwShiftIn)

(* ------------------- devices on a shared bus -------------------------- *)
\* the buffers the shared devices are called with: empty, or of the
\* greatest length
DevWords == {w \in SeqsUpTo({17}, MaxLen) : Len(w) \in {0, MaxLen}}

\* the argument of each operation: none, one byte, a buffer
OpWords(op) ==
    CASE op = "try_read" -> {<<>>}
      [] op = "try_send" -> {<<17>>}
      [] OTHER -> DevWords

\* the transactions started and not yet past the interrupt disable
Entering == Cardinality({c \in Ctxs : ctx[c].pc = "mask"})

\* the call the closure of a framing operation makes on the bus
BusCall(op, words) ==
    CASE op = "try_transfer" -> transfer_in_place(words)
      [] op = "try_write" -> SpiBusWrite_write(words)
      [] op = "try_write_iter" -> SpiBus_write_iter(words)
      [] OTHER -> NoPump

\* a device operation is called; interrupt::free reads mstatus
Start(c) ==
    /\ cpu = c
    /\ ctx[c].pc = "idle"
    /\ ops + Entering < MaxOps
    /\ \E op \in FrameOps \cup NbOps :
       \E w \in OpWords(op) :
          /\ ctx' = [ctx EXCEPT ![c] = [pc |-> "mask", op |-> op, words |-> w,
                                        saved |-> mie, txn |-> 0,
                                        frames |-> <<>>, result |-> "none"]]
    /\ UNCHANGED <<regs, txfifo, shreg, rxfifo, rxlost, wire, scn, arg, p, q,
                   spins, cfg, cpu, mie, borrowed, ops, acclog, last>>

\* interrupt::free, had it left interrupts enabled
Mask_InterruptsLeftOn(c) ==
    /\ cpu = c
    /\ ctx[c].pc = "mask"
    /\ ops' = ops + 1
    /\ ctx' = [ctx EXCEPT ![c].pc = "borrow", ![c].txn = ops + 1]
    /\ UNCHANGED <<regs, txfifo, shreg, rxfifo, rxlost, wire, scn, arg, p, q,
                   spins, cfg, cpu, mie, borrowed, acclog, last>>

\* interrupt::free disables interrupts: the critical section is acquired
Mask(c) ==
    /\ cpu = c
    /\ ctx[c].pc = "mask"
    /\ mie' = FALSE
    /\ ops' = ops + 1
    /\ ctx' = [ctx EXCEPT ![c].pc = "borrow", ![c].txn = ops + 1]
    /\ UNCHANGED <<regs, txfifo, shreg, rxfifo, rxlost, wire, scn, arg, p, q,
                   spins, cfg, cpu, borrowed, acclog, last>>

\* self.bus.borrow(*cs).borrow_mut(): panics when the bus is borrowed
Borrow(c) ==
    /\ cpu = c
    /\ ctx[c].pc = "borrow"
    /\ IF borrowed
       THEN cpu' = "halt" /\ UNCHANGED <<borrowed, ctx>>
       ELSE /\ borrowed' = TRUE
            /\ ctx' = [ctx EXCEPT ![c].pc = IF ctx[c].op \in PrimOps THEN "prim"
                                            ELSE "configure"]
            /\ cpu' = cpu
    /\ UNCHANGED <<regs, txfifo, shreg, rxfifo, rxlost, wire, scn, arg, p, q,
                   spins, cfg, mie, ops, acclog, last>>

\* the operation, had it gone on to the bus without configuring it
Configure_Skipped(c) ==
    /\ cpu = c
    /\ ctx[c].pc = "configure"
    /\ ctx' = [ctx EXCEPT ![c].pc = IF ctx[c].op \in FrameOps THEN "start" ELSE "nb"]
    /\ UNCHANGED <<regs, txfifo, shreg, rxfifo, rxlost, wire, scn, arg, p, q,
                   spins, cfg, cpu, mie, borrowed, ops, acclog, last>>

\* bus.configure(&self.config, Some(CS::CS_INDEX))
Configure(c) ==
    /\ cpu = c
    /\ ctx[c].pc = "configure"
    /\ LET config == cfg[DevOf(c)]
           cs_index == <<CS_INDEX(DevOf(c))>>
       IN /\ regs' = configure(regs, config, cs_index)
          /\ last' = [name |-> "configure", cs_mode |-> config.cs_mode,
                      cs_index |-> cs_index, prior |-> regs.csmode,
                      config |-> config]
    /\ ctx' = [ctx EXCEPT ![c].pc = IF ctx[c].op \in FrameOps THEN "start" ELSE "nb",
                          ![c].frames = Append(@, "end")]
    /\ acclog' = Touch(acclog, Owner)
    /\ UNCHANGED <<txfifo, shreg, rxfifo, rxlost, wire, scn, arg, p, q, spins,
                   cfg, cpu, mie, borrowed, ops>>

\* bus.start_frame(), and the call of the pump
StartFrame(c) ==
    /\ cpu = c
    /\ ctx[c].pc = "start"
    /\ regs' = start_frame(regs)
    /\ last' = [NoCall EXCEPT !.name = "start_frame", !.prior = regs.csmode]
    /\ p' = BusCall(ctx[c].op, ctx[c].words)
    /\ spins' = 0
    /\ ctx' = [ctx EXCEPT ![c].pc = "pump", ![c].frames = Append(@, "start")]
    /\ acclog' = Touch(acclog, Owner)
    /\ UNCHANGED <<txfifo, shreg, rxfifo, rxlost, wire, scn, arg, q, cfg, cpu,
                   mie, borrowed, ops>>

\* the closure, had it returned without calling end_frame
EndFrame_NotCalled(c) ==
    /\ cpu = c
    /\ ctx[c].pc = "pump"
    /\ p.pc = "done"
    /\ p' = NoPump
    /\ ctx' = [ctx EXCEPT ![c].pc = "release", ![c].result = p.ret]
    /\ UNCHANGED <<regs, txfifo, shreg, rxfifo, rxlost, wire, scn, arg, q, spins,
                   cfg, cpu, mie, borrowed, ops, acclog, last>>

\* the closure, had it returned a value of its own after end_frame
EndFrame_ResultLost(c) ==
    /\ cpu = c
    /\ ctx[c].pc = "pump"
    /\ p.pc = "done"
    /\ regs' = end_frame(regs)
    /\ last' = [NoCall EXCEPT !.name = "end_frame", !.prior = regs.csmode]
    /\ p' = NoPump
    /\ ctx' = [ctx EXCEPT ![c].pc = "release", ![c].frames = Append(@, "end"),
                          ![c].result = "Unit"]
    /\ acclog' = Touch(acclog, Owner)
    /\ UNCHANGED <<txfifo, shreg, rxfifo, rxlost, wire, scn, arg, q, spins, cfg,
                   cpu, mie, borrowed, ops>>

\* the pump has returned its result; bus.end_frame()
EndFrame(c) ==
    /\ cpu = c
    /\ ctx[c].pc = "pump"
    /\ p.pc = "done"
    /\ regs' = end_frame(regs)
    /\ last' = [NoCall EXCEPT !.name = "end_frame", !.prior = regs.csmode]
    /\ p' = NoPump
    /\ ctx' = [ctx EXCEPT ![c].pc = "release", ![c].frames = Append(@, "end"),
                          ![c].result = p.ret]
    /\ acclog' = Touch(acclog, Owner)
    /\ UNCHANGED <<txfifo, shreg, rxfifo, rxlost, wire, scn, arg, q, spins, cfg,
                   cpu, mie, borrowed, ops>>

\* bus.read() of try_read: one read of rxdata
NbRead(c) ==
    /\ cpu = c
    /\ ctx[c].pc = "nb"
    /\ ctx[c].op = "try_read"
    /\ rxfifo' = RxAfterRead
    /\ ctx' = [ctx EXCEPT ![c].pc = "release"]
    /\ acclog' = Touch(acclog, Owner)
    /\ UNCHANGED <<regs, txfifo, shreg, rxlost, wire, scn, arg, p, q, spins,
                   cfg, cpu, mie, borrowed, ops, last>>

\* bus.send(byte) of try_send: txdata read, and written unless full
NbSend(c) ==
    /\ cpu = c
    /\ ctx[c].pc = "nb"
    /\ ctx[c].op = "try_send"
    /\ txfifo' = IF TxFull THEN txfifo ELSE Append(txfifo, ctx[c].words[1])
    /\ ctx' = [ctx EXCEPT ![c].pc = "release"]
    /\ acclog' = Touch(acclog, Owner)
    /\ UNCHANGED <<regs, shreg, rxfifo, rxlost, wire, scn, arg, p, q, spins,
                   cfg, cpu, mie, borrowed, ops, last>>

\* the closure's return, had the RefMut outlived it
Release_BorrowKept(c) ==
    /\ cpu = c
    /\ ctx[c].pc = "release"
    /\ mie' = IF ctx[c].saved THEN TRUE ELSE mie
    /\ ctx' = [ctx EXCEPT ![c].pc = IF c = "isr" THEN "ret" ELSE "idle"]
    /\ UNCHANGED <<regs, txfifo, shreg, rxfifo, rxlost, wire, scn, arg, p, q,
                   spins, cfg, cpu, borrowed, ops, acclog, last>>

\* the closure returns: the RefMut is dropped, and interrupt::free enables
\* interrupts again if they were enabled when it was entered
Release(c) ==
    /\ cpu = c
    /\ ctx[c].pc = "release"
    /\ borrowed' = FALSE
    /\ mie' = IF ctx[c].saved THEN TRUE ELSE mie
    /\ ctx' = [ctx EXCEPT ![c].pc = IF c = "isr" THEN "ret" ELSE "idle"]
    /\ UNCHANGED <<regs, txfifo, shreg, rxfifo, rxlost, wire, scn, arg, p, q,
                   spins, cfg, cpu, ops, acclog, last>>

\* an interrupt is taken: the hart clears MIE and runs the handler, which
\* uses device B
IsrEnter ==
    /\ cpu = "main"
    /\ mie
    /\ ctx["isr"].pc = "idle"
    /\ ops + Entering < MaxOps
    /\ cpu' = "isr"
    /\ mie' = FALSE
    /\ UNCHANGED <<regs, txfifo, shreg, rxfifo, rxlost, wire, scn, arg, p, q,
                   spins, cfg, borrowed, ctx, ops, acclog, last>>

\* the handler returns: mret restores MIE
IsrExit ==
    /\ cpu = "isr"
    /\ ctx["isr"].pc = "ret"
    /\ cpu' = "main"
    /\ mie' = TRUE
    /\ ctx' = [ctx EXCEPT !["isr"].pc = "idle"]
    /\ UNCHANGED <<regs, txfifo, shreg, rxfifo, rxlost, wire, scn, arg, p, q,
                   spins, cfg, borrowed, ops, acclog, last>>

\* two devices with their Configurations on one bus, after reset
Init ==
    /\ scn = "shared"
    /\ cfg \in DevConfigs
    /\ regs = RegsReset
    /\ txfifo = <<>>
    /\ shreg = <<>>
    /\ rxfifo = <<>>
    /\ rxlost = FALSE
    /\ wire = "loopback"
    /\ arg = [read |-> <<>>, write |-> <<>>, inflight |-> FALSE,
             fifosempty |-> TRUE]
    /\ p = NoPump
    /\ q = NoPump
    /\ spins = 0
    /\ SysIdle

Next ==
    \/ \E c \in Ctxs : Start(c)
    \/ \E c \in Ctxs : Mask(c)
    \/ \E c \in Ctxs : Borrow(c)
    \/ \E c \in Ctxs : Configure(c)
    \/ \E c \in Ctxs : StartFrame(c)
    \/ PumpWait
    \/ PumpTx
    \/ PumpRx
    \/ \E c \in Ctxs : EndFrame(c)
    \/ \E c \in Ctxs : NbRead(c)
    \/ \E c \in Ctxs : NbSend(c)
    \/ \E c \in Ctxs : Release(c)
    \/ IsrEnter
    \/ IsrExit
    \/ HwShiftOut
    \/ HwShiftIn

Spec == Init /\ [][Next]_vars

(* ------- the frame primitives of the shared bus, called directly ------ *)
\* SharedBus::start_frame or SharedBus::end_frame is called; interrupt::free
\* reads mstatus.  (They take &mut SharedBus; here any context may call them
\* at any time, which is more than the borrow checker admits.)
StartPrim(c) ==
    /\ cpu = c
    /\ ctx[c].pc = "idle"
    /\ ops + Entering < MaxOps
    /\ \E op \in PrimOps :
          ctx' = [ctx EXCEPT ![c] = [pc |-> "mask", op |-> op, words |-> <<>>,
                                     saved |-> mie, txn |-> 0,
                                     frames |-> <<>>, result |-> "none"]]
    /\ UNCHANGED <<regs, txfifo, shreg, rxfifo, rxlost, wire, scn, arg, p, q,
                   spins, cfg, cpu, mie, borrowed, ops, acclog, last>>

\* bus.start_frame() / bus.end_frame() inside the closure
Prim(c) ==
    /\ cpu = c
    /\ ctx[c].pc = "prim"
    /\ regs' = IF ctx[c].op = "start_frame" THEN start_frame(regs) ELSE end_frame(regs)
    /\ last' = [NoCall EXCEPT !.name = ctx[c].op, !.prior = regs.csmode]
    /\ ctx' = [ctx EXCEPT ![c].pc = "release"]
    /\ acclog' = Touch(acclog, Owner)
    /\ UNCHANGED <<txfifo, shreg, rxfifo, rxlost, wire, scn, arg, p, q, spins,
                   cfg, cpu, mie, borrowed, ops>>

NextLock ==
    \/ \E c \in Ctxs : Start(c)
    \/ \E c \in Ctxs : StartPrim(c)
    \/ \E c \in Ctxs : Mask(c)
    \/ \E c \in Ctxs : Borrow(c)
    \/ \E c \in Ctxs : Configure(c)
    \/ \E c \in Ctxs : StartFrame(c)
    \/ \E c \in Ctxs : Prim(c)
    \/ PumpWait
    \/ PumpTx
    \/ PumpRx
    \/ \E c \in Ctxs : EndFrame(c)
    \/ \E c \in Ctxs : NbRead(c)
    \/ \E c \in Ctxs : NbSend(c)
    \/ \E c \in Ctxs : Release(c)
    \/ IsrEnter
    \/ IsrExit
    \/ HwShiftOut
    \/ HwShiftIn

SpecLock == Init /\ [][NextLock]_vars

(* ------------------------ claims on the pumps ------------------------- *)
\* the values written to txdata, in order
RECURSIVE Pushed(_)
Pushed(log) ==
    IF log = <<>> THEN <<>>
    ELSE IF Head(log)[1] = "wtx" THEN <<Head(log)[2]>> \o Pushed(Tail(log))
         ELSE Pushed(Tail(log))

\* the number of bytes a pump is to move
PumpLen(m) ==
    CASE m.op = "perform_transfer" -> Max(Len(m.words), Len(m.write))
      [] m.op \in {"transfer_in_place", "spi_transfer", "async_transfer"} -> Len(m.words)
      [] OTHER -> Len(m.write)

\* the pump has returned with both cursors at max(len(read), len(write))
PumpFinished ==
    /\ p.pc = "done"
    /\ p.iwrite = Max(Len(arg.read), Len(arg.write))
    /\ p.iread = Max(Len(arg.read), Len(arg.write))

\* C4: with a controller that keeps shifting and loses no byte, every call of
\* perform_transfer (any pair of buffer lengths, read-only and write-only
\* included) returns with iwrite = iread = max(len(read), len(write)).
C4_PumpTerminates ==
    scn \in {"transfer", "read", "write"} => <>(rxlost \/ PumpFinished)

\* a read-only call going round its loop: the write buffer is empty, so the
\* TX attempt is skipped, nothing is pushed and nothing is ever received
C4_Witness ==
    /\ scn = "read"
    /\ Len(arg.read) = MaxLen
    /\ p.pc = "rx"
    /\ p.iwrite = 0
    /\ txfifo = <<>> /\ shreg = <<>> /\ rxfifo = <<>>

\* a full-duplex call on equal-length buffers, against an idle loopback
\* controller
RoundTripCall ==
    /\ scn = "transfer"
    /\ wire = "loopback"
    /\ ~arg.inflight
    /\ Len(arg.read) = Len(arg.write)

\* C5: against a loopback controller, transfer(read, write) on buffers of
\* equal length N (N = 0 included) returns, and returns with read = write,
\* whenever the controller keeps shifting and drops no byte.
C5_RoundTrip ==
    RoundTripCall =>
        /\ <>(rxlost \/ p.pc = "done")
        /\ [](p.pc = "done" => p.words = arg.write)

C5_Witness ==
    /\ RoundTripCall
    /\ p.pc = "done"
    /\ Len(arg.write) >= 2
    /\ p.words = arg.write
    /\ p.words # arg.read
    /\ spins > 0

\* C6: read(buf) clocks the bus with filler bytes: whenever its TX attempt
\* finds room in the TX FIFO and fewer than len(buf) bytes pushed, it pushes
\* the filler byte 0.
C6_ReadPushesFiller ==
    [][(scn = "read" /\ p.pc = "tx" /\ p'.pc = "rx"
            /\ p.iwrite < Len(arg.read) /\ ~TxFull)
          => (txfifo' = Append(txfifo, 0) /\ p'.iwrite = p.iwrite + 1)]_vars

\* read(buf) past a TX attempt that found the TX FIFO with room
C6_Witness ==
    /\ scn = "read"
    /\ Len(arg.read) > 0
    /\ p.pc = "tx"
    /\ ~TxFull
    /\ Pushed(p.log) = <<>>
    /\ Len(p.log) > 0

CursorsInOrder(m) ==
    /\ 0 <= m.iread
    /\ m.iread <= m.iwrite
    /\ m.iwrite <= PumpLen(m)
    /\ Len(Pushed(m.log)) = m.iwrite

\* C7: in every state of every pump variant (perform_transfer,
\* transfer_in_place, legacy transfer and write, the cooperative transfer and
\* write between and during polls) 0 <= iread <= iwrite <= n, and iwrite is
\* the number of bytes pushed.
C7_CursorInvariant ==
    /\ p.op \notin {"spi_write_iter", "async_write_iter"} => CursorsInOrder(p)
    /\ q.op # "none" => CursorsInOrder(q)

\* a cooperative transfer suspended with a byte requested and not yet
\* received, a stale byte having arrived meanwhile
C7_Witness ==
    /\ p.op = "async_transfer"
    /\ p.pc = "suspended"
    /\ p.iread < p.iwrite
    /\ p.iwrite < PumpLen(p)
    /\ arg.inflight

\* C9: a cooperative transfer driven by repeated polls and the blocking
\* transfer, given the same buffer and the same register answers, make the
\* same TX pushes and RX pops in the same order and hold the same buffer
\* contents; the one has completed exactly when the other has returned
\* (while the cooperative one is suspended, the blocking one stands where the
\* next poll resumes).
C9_CoopMatchesBlocking ==
    scn \in {"async_transfer", "async_write"} =>
        /\ q.log = p.log
        /\ q.words = p.words
        /\ q.iwrite = p.iwrite /\ q.iread = p.iread
        /\ q.pc = IF p.pc = "suspended" THEN LoopPc(p) ELSE p.pc

C9_Witness ==
    /\ scn = "async_transfer"
    /\ p.pc = "done" /\ q.pc = "done"
    /\ Len(p.words) >= 2
    /\ spins > 0
    /\ p.words # arg.write

Configs ==
    {[ConfigA EXCEPT !.clock_divisor = d, !.pha = ph, !.pol = po, !.cs_mode = m] :
        d \in {0, 7, 65543}, ph \in BOOLEAN, po \in BOOLEAN,
        m \in {CsAuto, CsHold, CsOff}}
    \cup SharedConfigs

\* Option<u32>: no chip-select pin, or the index of one
CsIndexes == {<<>>} \cup {<<i>> : i \in 0..3}

\* configure, as SpiExclusiveDevice::new calls it with PINS::CS_INDEX
BusConfigure ==
    /\ \E config \in Configs, cs_index \in CsIndexes :
          /\ regs' = configure(regs, config, cs_index)
          /\ last' = [name |-> "configure", cs_mode |-> config.cs_mode,
                      cs_index |-> cs_index, prior |-> regs.csmode,
                      config |-> config]
    /\ UNCHANGED <<txfifo, shreg, rxfifo, rxlost, wire, scn, arg, p, q, spins,
                   cfg, cpu, mie, borrowed, ctx, ops, acclog>>

BusStartFrame ==
    /\ regs' = start_frame(regs)
    /\ last' = [NoCall EXCEPT !.name = "start_frame", !.prior = regs.csmode]
    /\ UNCHANGED <<txfifo, shreg, rxfifo, rxlost, wire, scn, arg, p, q, spins,
                   cfg, cpu, mie, borrowed, ctx, ops, acclog>>

BusEndFrame ==
    /\ regs' = end_frame(regs)
    /\ last' = [NoCall EXCEPT !.name = "end_frame", !.prior = regs.csmode]
    /\ UNCHANGED <<txfifo, shreg, rxfifo, rxlost, wire, scn, arg, p, q, spins,
                   cfg, cpu, mie, borrowed, ctx, ops, acclog>>

\* the controller in any chip-select mode, as earlier code may have left it
InitBus ==
    /\ scn = "bus"
    /\ cfg = [d \in Devs |-> ConfigA]
    /\ regs \in {[RegsReset EXCEPT !.csmode = m, !.csid = i] :
                    m \in {CsAuto, CsHold, CsOff}, i \in {0, 2}}
    /\ txfifo = <<>>
    /\ shreg = <<>>
    /\ rxfifo = <<>>
    /\ rxlost = FALSE
    /\ wire = "loopback"
    /\ arg = [read |-> <<>>, write |-> <<>>, inflight |-> FALSE,
             fifosempty |-> TRUE]
    /\ p = NoPump
    /\ q = NoPump
    /\ spins = 0
    /\ SysIdle

NextBus ==
    \/ BusConfigure
    \/ BusStartFrame
    \/ BusEndFrame

SpecBus == InitBus /\ [][NextBus]_vars

(* --------------------- claims on the shared bus ----------------------- *)
\* C1: the register accesses of one transaction are never split by an access
\* of another one: the operations appear in the access log in the order in
\* which they acquired the critical section, each of them once; and at most
\* one context is inside a critical section, so that no borrow of the bus
\* ever fails.
C1_MutualExclusion ==
    /\ \A i, j \in DOMAIN acclog : i < j => acclog[i][2] < acclog[j][2]
    /\ Cardinality({c \in Ctxs : ctx[c].pc \in CritPcs}) <= 1
    /\ cpu # "halt"

\* the handler's transaction runs its pump between the read of mstatus and
\* the interrupt disable of a transaction of the main program, after an
\* earlier transaction of the main program
C1_Witness ==
    /\ cpu = "isr"
    /\ ctx["isr"].pc = "pump"
    /\ ctx["main"].pc = "mask"
    /\ p.iwrite > 0
    /\ acclog = <<(<<"A", 1>>), (<<"B", 2>>)>>

\* the registers hold the Configuration and the chip-select index of d
RegsMatch(d) ==
    /\ regs.sckdiv = cfg[d].clock_divisor
    /\ regs.pha = cfg[d].pha
    /\ regs.pol = cfg[d].pol
    /\ regs.csid = CS_INDEX(d)
    /\ regs.txmark = cfg[d].txmark
    /\ regs.rxmark = cfg[d].rxmark
    /\ regs.cssck = cfg[d].cssck
    /\ regs.sckcs = cfg[d].sckcs
    /\ regs.intercs = cfg[d].intercs
    /\ regs.interxfr = cfg[d].interxfr

\* C2: while the pump of a transaction of a shared device runs, and when its
\* non-blocking FIFO access is made, the clock divisor, clock mode,
\* chip-select id, watermark and delay registers hold that device's
\* Configuration and chip-select index, whatever ran on the bus before.
C2_Reconfigured ==
    \A c \in Ctxs : ctx[c].pc \in {"pump", "nb"} => RegsMatch(DevOf(c))

\* D1, then D2, then D1 again, the two Configurations differing in every
\* field
C2_Witness ==
    /\ cfg["A"] = ConfigA
    /\ cfg["B"] = ConfigB
    /\ acclog = <<(<<"A", 1>>), (<<"B", 2>>), (<<"A", 3>>)>>
    /\ ctx["main"].pc = "pump"
    /\ p.iwrite > 0
    /\ RegsMatch("A")

\* the start_frame and end_frame calls a finished transaction has made
FramesDone(c) == ctx[c].op \in FrameOps /\ ctx[c].pc = "release"

Count(seq, x) == Cardinality({i \in DOMAIN seq : seq[i] = x})

C8_IdleAfterConfigure ==
    last.name = "configure" =>
        /\ regs.csmode # CsHold
        /\ regs.csmode = IF last.cs_mode = CsOff THEN CsOff ELSE CsAuto

\* a Hold Configuration, no chip-select index, on a controller left in Hold
C8_Witness ==
    /\ last.name = "configure"
    /\ last.cs_mode = CsHold
    /\ last.cs_index = <<>>
    /\ last.prior = CsHold
    /\ regs.csmode = CsAuto

\* context c reads or writes txdata or rxdata in this step: a step of its
\* pump that adds to the access log of the pump, or its non-blocking read or
\* send
FifoAccessBy(c) ==
    /\ cpu = c
    /\ \/ ctx[c].pc = "pump" /\ ctx'[c].pc = "pump" /\ p'.log # p.log
       \/ ctx[c].pc = "nb" /\ ctx'[c].pc = "release"

\* C11: every TX/RX FIFO access of an operation of a shared device is made
\* after that operation has called configure (configure is its first call on
\* the bus), inside the critical section it called configure in, and with
\* the registers holding the device's own Configuration and chip-select index.
C11_ConfigureBeforeTraffic ==
    [][\A c \in Ctxs : FifoAccessBy(c) =>
          /\ ctx[c].frames # <<>>
          /\ ctx[c].frames[1] = "end"
          /\ ~mie
          /\ borrowed
          /\ RegsMatch(DevOf(c))]_vars

\* the handler's try_send has pushed its byte, the main program's device
\* having used the bus before it with another Configuration
C11_Witness ==
    /\ acclog = <<(<<"A", 1>>), (<<"B", 2>>)>>
    /\ ctx["isr"].op = "try_send"
    /\ ctx["isr"].pc = "release"
    /\ ctx["isr"].frames = <<"end">>
    /\ txfifo # <<>>
    /\ RegsMatch("B")
    /\ ~RegsMatch("A")

(* ------------------------ the exclusive device ------------------------ *)
\* the transactions of SpiExclusiveDevice
ExclOps == {"transfer", "write", "write_iter", "exec"}

\* the call each transaction makes on its bus (exec: one Transfer operation)
ExclCall(op, words) ==
    CASE op = "transfer" -> transfer_in_place(words)
      [] op = "write" -> SpiBusWrite_write(words)
      [] op = "write_iter" -> SpiBus_write_iter(words)
      [] op = "exec" -> transfer_in_place(words)

\* SpiExclusiveDevice::new: bus.configure(config, PINS::CS_INDEX)
ExclNew ==
    /\ ctx["main"].pc = "new"
    /\ regs' = configure(regs, cfg["A"], last.cs_index)
    /\ last' = [name |-> "configure", cs_mode |-> cfg["A"].cs_mode,
                cs_index |-> last.cs_index, prior |-> regs.csmode,
                config |-> cfg["A"]]
    /\ acclog' = Append(acclog, <<"configure", 0>>)
    /\ ctx' = [ctx EXCEPT !["main"].pc = "idle"]
    /\ UNCHANGED <<txfifo, shreg, rxfifo, rxlost, wire, scn, arg, p, q, spins,
                   cfg, cpu, mie, borrowed, ops>>

\* a transaction, had it configured the bus again
ExclStart_Reconfigures ==
    /\ ctx["main"].pc = "idle"
    /\ ops < MaxOps
    /\ \E op \in ExclOps, w \in DevWords :
          /\ p' = ExclCall(op, w)
          /\ ctx' = [ctx EXCEPT !["main"] =
                        [CtxIdle EXCEPT !.pc = "pump", !.op = op, !.words = w,
                                        !.txn = ops + 1, !.frames = <<"end", "start">>]]
    /\ regs' = start_frame(configure(regs, cfg["A"], last.cs_index))
    /\ last' = [last EXCEPT !.name = "start_frame", !.prior = regs.csmode]
    /\ acclog' = acclog \o <<(<<"configure", ops + 1>>), (<<"start_frame", ops + 1>>)>>
    /\ ops' = ops + 1
    /\ spins' = 0
    /\ UNCHANGED <<txfifo, shreg, rxfifo, rxlost, wire, scn, arg, q, cfg, cpu,
                   mie, borrowed>>

\* a transaction is called: self.bus.start_frame(), and the call of the pump
ExclStart ==
    /\ ctx["main"].pc = "idle"
    /\ ops < MaxOps
    /\ \E op \in ExclOps, w \in DevWords :
          /\ p' = ExclCall(op, w)
          /\ ctx' = [ctx EXCEPT !["main"] =
                        [CtxIdle EXCEPT !.pc = "pump", !.op = op, !.words = w,
                                        !.txn = ops + 1, !.frames = <<"start">>]]
    /\ regs' = start_frame(regs)
    /\ last' = [last EXCEPT !.name = "start_frame", !.prior = regs.csmode]
    /\ acclog' = Append(acclog, <<"start_frame", ops + 1>>)
    /\ ops' = ops + 1
    /\ spins' = 0
    /\ UNCHANGED <<txfifo, shreg, rxfifo, rxlost, wire, scn, arg, q, cfg, cpu,
                   mie, borrowed>>

\* the pump has returned its result; self.bus.end_frame(); result
ExclEnd ==
    /\ ctx["main"].pc = "pump"
    /\ p.pc = "done"
    /\ regs' = end_frame(regs)
    /\ last' = [last EXCEPT !.name = "end_frame", !.prior = regs.csmode]
    /\ acclog' = Append(acclog, <<"end_frame", ops>>)
    /\ p' = NoPump
    /\ ctx' = [ctx EXCEPT !["main"].pc = "idle",
                          !["main"].frames = Append(@, "end"),
                          !["main"].result = p.ret]
    /\ UNCHANGED <<txfifo, shreg, rxfifo, rxlost, wire, scn, arg, q, spins, cfg,
                   cpu, mie, borrowed, ops>>

\* a bus after reset, handed to SpiExclusiveDevice::new with a Configuration;
\* the pin set has a chip-select pin or none
InitExcl ==
    /\ scn = "excl"
    /\ cfg \in {[d \in Devs |-> config] : config \in SharedConfigs}
    /\ regs = RegsReset
    /\ txfifo = <<>>
    /\ shreg = <<>>
    /\ rxfifo = <<>>
    /\ rxlost = FALSE
    /\ wire = "loopback"
    /\ arg = [read |-> <<>>, write |-> <<>>, inflight |-> FALSE,
             fifosempty |-> TRUE]
    /\ p = NoPump
    /\ q = NoPump
    /\ spins = 0
    /\ cpu = "main"
    /\ mie = TRUE
    /\ borrowed = FALSE
    /\ ctx = [c \in Ctxs |-> IF c = "main" THEN [CtxIdle EXCEPT !.pc = "new"] ELSE CtxIdle]
    /\ ops = 0
    /\ acclog = <<>>
    /\ last \in {[NoCall EXCEPT !.cs_index = i] : i \in CsIndexes}

NextExcl ==
    \/ ExclNew
    \/ ExclStart
    \/ PumpWait
    \/ PumpTx
    \/ PumpRx
    \/ ExclEnd
    \/ HwShiftOut
    \/ HwShiftIn

SpecExcl == InitExcl /\ [][NextExcl]_vars

\* the i-th call after construction: start_frame, pump, end_frame in turn
ExclCallName(i) ==
    CASE i % 3 = 0 -> "start_frame"
      [] i % 3 = 1 -> "pump"
      [] i % 3 = 2 -> "end_frame"

\* the registers as construction left them, the chip-select mode aside
ExclConfigured == configure(RegsReset, cfg["A"], last.cs_index)

\* C12: an exclusive device calls configure once, at construction, and never
\* again; after it the calls on the bus are start_frame, the pump, end_frame
\* for the first transaction, the same for the second, and so on; and no
\* register but the chip-select mode ever differs from what construction
\* wrote.
C12_ExclusiveProtocol ==
    /\ ctx["main"].pc = "new" <=> acclog = <<>>
    /\ \A i \in DOMAIN acclog :
          acclog[i] = IF i = 1 THEN <<"configure", 0>>
                      ELSE <<ExclCallName(i - 2), ((i - 2) \div 3) + 1>>
    /\ ctx["main"].pc # "new" =>
          [regs EXCEPT !.csmode = CsAuto] = [ExclConfigured EXCEPT !.csmode = CsAuto]

\* the third transaction, an exec, is in its pump
C12_Witness ==
    /\ Len(acclog) = 9
    /\ ctx["main"].op = "exec"
    /\ ctx["main"].pc = "pump"
    /\ p.iread > 0
    /\ regs.csmode = CsHold
    /\ last.cs_index = <<2>>

\* C13: a transaction leaves its pump only when the pump has returned, and
\* then, whatever the pump returned, calls end_frame and keeps the pump's
\* value as its result; the result is handed to the caller as it is.
C13_TeardownAndResult ==
    [][\A c \in Ctxs :
          /\ (ctx[c].pc = "pump" /\ ctx'[c].pc # "pump") =>
                /\ p.pc = "done"
                /\ p.ret # "none"
                /\ regs' = end_frame(regs)
                /\ last'.name = "end_frame"
                /\ ctx'[c].frames = Append(ctx[c].frames, "end")
                /\ ctx'[c].result = p.ret
          /\ ctx[c].pc \in {"release", "ret"} => ctx'[c].result = ctx[c].result]_vars

\* try_transfer has returned Ok to the main program, the frame ended
C13_Witness ==
    /\ ctx["main"].pc = "idle"
    /\ ctx["main"].op = "try_transfer"
    /\ Len(ctx["main"].words) = MaxLen
    /\ ctx["main"].result = "Ok"
    /\ ctx["main"].frames = <<"end", "start", "end">>
    /\ regs.csmode = CsAuto
    /\ ~borrowed

\* a step in which configure is called on the bus and changes something
ConfigureStep == last'.name = "configure" /\ <<regs, last>>' # <<regs, last>>

\* C14 as stated: configure writes the chip-select id if and only if it is
\* given an index, and leaves the chip-select mode Auto if it is given an
\* index and Off if not.
C14_ModeFollowsCsIndex ==
    [][ConfigureStep =>
          /\ regs'.csid = IF last'.cs_index # <<>> THEN last'.cs_index[1] ELSE regs.csid
          /\ regs'.csmode = IF last'.cs_index # <<>> THEN CsAuto ELSE CsOff]_vars

\* C14, amended: configure writes the chip-select id if and only if it is
\* given an index; the chip-select mode it leaves does not depend on the
\* index: it is Off if the Configuration's mode is Off and Auto otherwise.
C14_ModeFollowsConfig ==
    [][ConfigureStep =>
          /\ regs'.csid = IF last'.cs_index # <<>> THEN last'.cs_index[1] ELSE regs.csid
          /\ regs'.csmode = IF last'.cs_mode = CsOff THEN CsOff ELSE CsAuto]_vars

\* configure without an index and with an Auto Configuration: line 2 stays
\* selected and the mode is Auto
C14_Witness ==
    /\ last.name = "configure"
    /\ last.cs_index = <<>>
    /\ last.cs_mode = CsAuto
    /\ last.prior = CsOff
    /\ regs.csid = 2
    /\ regs.csmode = CsAuto

\* a step in which the named frame primitive is called and changes something
FramePrimitiveStep(name) == last'.name = name /\ <<regs, last>>' # <<regs, last>>

\* C15: start_frame sets the chip-select mode to Hold and end_frame sets it
\* to Auto when the mode is not Off; when it is Off both leave every
\* register as it is; and neither changes a register other than the
\* chip-select mode.
C15_FramePrimitives ==
    [][/\ FramePrimitiveStep("start_frame") =>
             regs' = IF regs.csmode # CsOff THEN [regs EXCEPT !.csmode = CsHold]
                     ELSE regs
       /\ FramePrimitiveStep("end_frame") =>
             regs' = IF regs.csmode # CsOff THEN [regs EXCEPT !.csmode = CsAuto]
                     ELSE regs]_vars

\* start_frame called on a bus configured Off: nothing has changed
C15_Witness ==
    /\ last.name = "start_frame"
    /\ last.prior = CsOff
    /\ regs = configure(regs, ConfigC, <<1>>)
    /\ regs.csmode = CsOff

\* the wire format configure writes
WireFormat == [proto |-> "single", endian |-> "big", dir |-> "rx", len |-> 8]

\* C20: every configure call leaves the format register single-lane,
\* MSB-first, receive direction, 8 bits, whatever the Configuration, and no
\* later call on the bus changes it.
C20_FormatFixed ==
    [][/\ last'.name = "configure" => regs'.fmt = WireFormat
       /\ regs.fmt = WireFormat => regs'.fmt = WireFormat]_vars

\* configured with ConfigB, a frame started and ended: the format stands
C20_Witness ==
    /\ last.name = "end_frame"
    /\ last.prior = CsHold
    /\ regs.fmt = WireFormat
    /\ regs.fmt # RegsReset.fmt
    /\ regs.sckdiv = ConfigB.clock_divisor
    /\ regs.pha

(* ---------------- C16: what one poll of a transfer object does -------- *)
\* the cursors' advance since the running (or last) poll was entered
PollAdvance == <<p.iwrite - p.entry[1], p.iread - p.entry[2]>>

IsStale(b) ==
    \E s \in Leftover : \E i \in 1..Len(s) : b \in {s[i], 255 - s[i]}

\* every push comes after a read of rxdata that reported empty
DrainedBeforePush(log) ==
    \A k \in 1..Len(log) :
        log[k][1] = "wtx" => \E j \in 1..(k - 1) : log[j] = Acc("rrx", -1)

\* the buffer the pump stores responses into holds none of an earlier
\* operation
NoStaleStored == \A i \in 1..Len(p.words) : ~IsStale(p.words[i])

\* C17 as stated: every transfer polls the RX FIFO until it reports empty
\* before its first push, and so, whatever earlier operations left in the
\* controller, no byte requested before the transfer began is stored into
\* its read buffer.
C17_NoStaleBytes == DrainedBeforePush(p.log) /\ NoStaleStored

\* C17 as the code has it: every transfer polls the RX FIFO until it reports
\* empty before its first push, so no byte that was in the RX FIFO is
\* stored; the buffer is free of earlier bytes when, in addition, nothing
\* was left in the TX FIFO or the shift register at the call.
C17_DrainCoversRxOnly ==
    /\ DrainedBeforePush(p.log)
    /\ ~arg.inflight => NoStaleStored

\* a transfer that found a byte in the RX FIFO, discarded it, and returned
\* with a buffer full of its own responses
C17_Witness ==
    /\ ~arg.inflight
    /\ p.log # <<>> /\ p.log[1][1] = "rrx" /\ IsStale(p.log[1][2])
    /\ p.pc = "done"
    /\ Len(p.words) = MaxLen
    /\ p.iread = MaxLen
    /\ NoStaleStored

(* ---------------- a transfer object discarded before completion ------- *)
\* the discard, had it written the chip-select mode back as a completed
\* poll does
Cancel_EndsFrame ==
    /\ p.op \in CoopOps
    /\ p.pc = "suspended"
    /\ p' = [p EXCEPT !.pc = "dropped"]
    /\ regs' = [regs EXCEPT !.csmode = poll_cs_mode_word(@)]
    /\ UNCHANGED <<txfifo, shreg, rxfifo, rxlost, wire, scn, arg, q, spins,
                   sysv, acclog>>

\* The caller drops the transfer object between two polls.  The object has
\* no destructor: its fields (a register block reference, the buffer, two
\* cursors) are released and nothing else runs.
Cancel ==
    /\ p.op \in CoopOps
    /\ p.pc = "suspended"
    /\ p' = [p EXCEPT !.pc = "dropped"]
    /\ UNCHANGED <<regs, txfifo, shreg, rxfifo, rxlost, wire, scn, arg, q, spins,
                   sysv, acclog>>

NextCancel ==
    \/ PumpWait
    \/ PumpFrame
    \/ Poll
    \/ PumpTx
    \/ PumpRx
    \/ PumpEnd
    \/ PumpFlush
    \/ HwShiftOut
    \/ HwShiftIn
    \/ Cancel

SpecCancel == InitPump /\ [][NextCancel]_vars

\* C18: discarding a cooperative transfer object before completion writes
\* no register and touches no FIFO.  From then on the registers keep their
\* values, so a chip-select mode that is not Off stays Hold (the frame
\* stays open), and a byte already pushed leaves the TX FIFO only by being
\* shifted out on the wire.
C18_CancelWritesNothing ==
    [][p'.pc = "dropped" =>
          /\ regs' = regs
          /\ regs'.csmode \in {CsHold, CsOff}
          /\ p.pc = "suspended" =>
                txfifo' = txfifo /\ shreg' = shreg /\ rxfifo' = rxfifo
          /\ txfifo' # txfifo =>
                txfifo # <<>> /\ txfifo' = Tail(txfifo) /\ shreg' = <<Head(txfifo)>>]_vars

\* a transfer dropped with a byte outstanding: the frame is still open and
\* the byte has gone out, its response lying unread in the RX FIFO
C18_Witness ==
    /\ p.pc = "dropped"
    /\ regs.csmode = CsHold
    /\ p.iread < p.iwrite
    /\ txfifo = <<>> /\ shreg = <<>>
    /\ rxfifo # <<>>

(* ---------------- C19: what the pumps return -------------------------- *)
\* C19: whatever the buffers and whatever the controller does (bytes left
\* over, an inverting wire, responses lost to an overrun), a pump
\* (perform_transfer, transfer_in_place, flush, the legacy and cooperative
\* ones) has either not returned or has returned Ok, and so has every
\* device transaction built on it: no error value is ever returned.
C19_OkOrNoReturn ==
    /\ p.ret \in {"none", "Ok"}
    /\ p.op # "none" => (p.pc = "done" <=> p.ret = "Ok")
    /\ \A c \in Ctxs : ctx[c].result \in {"none", "Ok"}

\* a bus pump that returned Ok although the controller dropped a response
C19_Witness ==
    /\ p.op \in BusOps
    /\ p.pc = "done"
    /\ p.ret = "Ok"
    /\ rxlost

(* ---------------- C21: configure and the Configuration ---------------- *)
\* the registers configure copies from the Configuration hold its values
PassedThrough(r, config) ==
    /\ r.pha = config.pha
    /\ r.pol = config.pol
    /\ r.txmark = config.txmark
    /\ r.rxmark = config.rxmark
    /\ r.cssck = config.cssck
    /\ r.sckcs = config.sckcs
    /\ r.intercs = config.intercs
    /\ r.interxfr = config.interxfr

\* C21: after configure(cfg, cs_index), whatever the registers held before,
\* the clock phase and polarity bits are those of cfg.mode, the transmit and
\* receive watermarks are cfg.txmark and cfg.rxmark, and the four delay
\* counters are those of cfg.delays.
C21_PassThrough ==
    [][ConfigureStep => PassedThrough(regs', last'.config)]_vars

\* configure has overwritten registers that held another Configuration
C21_Witness ==
    /\ last.name = "configure"
    /\ last.config = ConfigB
    /\ PassedThrough(regs, ConfigB)
    /\ ~PassedThrough(RegsReset, ConfigB)
    /\ last.prior = CsHold

(* ---------------- C22: register access under the lock ----------------- *)
\* a step in which software reads or writes a controller register: a
\* register changes, a bus primitive runs, a pump logs an access, a byte is
\* pushed or popped (the controller's own moves go through the shift
\* register), or the access log grows
SoftwareAccess ==
    \/ regs' # regs
    \/ last' # last
    \/ p'.log # p.log
    \/ acclog' # acclog
    \/ (txfifo' # txfifo /\ shreg' = shreg)
    \/ (rxfifo' # rxfifo /\ shreg' = shreg)

\* C22: every register read or write of a Shared Device operation or of
\* SharedBus::start_frame / end_frame is made with interrupts masked and the
\* bus mutably borrowed, by the context that is inside the critical section;
\* and borrow_mut never finds the bus borrowed (it never panics).
C22_AccessUnderLock ==
    [][/\ SoftwareAccess =>
             /\ ~mie
             /\ borrowed
             /\ cpu \in Ctxs
             /\ ctx[cpu].pc \in CritPcs \ {"borrow"}
             /\ \A c \in Ctxs \ {cpu} : ctx[c].pc \notin CritPcs
       /\ cpu' # "halt"]_vars

\* the handler is inside SharedBus::end_frame, having interrupted the main
\* program between its read of mstatus and its interrupt disable, after a
\* transfer of the main program
C22_Witness ==
    /\ cpu = "isr"
    /\ ctx["isr"].op = "end_frame"
    /\ ctx["isr"].pc = "release"
    /\ ctx["main"].pc = "mask"
    /\ last.name = "end_frame"
    /\ ~mie /\ borrowed
    /\ Len(acclog) = 2

(* ---------------- C23: the chip-select is not left held --------------- *)
\* a transaction is between its start_frame and its end_frame
PumpInProgress == \E c \in Ctxs : ctx[c].pc = "pump"

C24_NoLostWakeup ==
    p.op \in CoopOps =>
        /\ []((p.pc = "suspended" /\ p.polled) => p.woken)
        /\ <>(rxlost \/ p.pc = "done")

\* a write-iterator transfer completed after a poll that returned "not
\* ready"
C24_Witness ==
    /\ p.op = "async_write_iter"
    /\ p.pc = "done"
    /\ Len(arg.write) = MaxLen
    /\ p.write = <<>>
    /\ \E i \in DOMAIN p.log : p.log[i] = Acc("rrx", -1) /\ i > 1
    /\ ~rxlost

(* ---------------- C25: the frame of a cooperative transfer ------------ *)
\* C25: a cooperative transfer sets the chip-select mode to the frame value
\* (Hold, unless the mode is Off) when the transfer object is created, and to
\* the per-word value (Auto, unless Off) in the poll that returns
\* completion, which it does only once nothing is left to push or to
\* receive; the mode is written nowhere else, and completion is returned
\* nowhere else.
C25_CoopFrameBracket ==
    [][p.op \in CoopOps =>
          /\ (p.pc = "frame" /\ p'.pc # "frame") =>
                /\ p'.pc = "suspended"
                /\ regs'.csmode = IF regs.csmode = CsOff THEN CsOff ELSE CsHold
          /\ (p.pc = "end" /\ p'.pc # "end") =>
                /\ p'.pc = "done"
                /\ ~LoopCond(p)
                /\ p.op \in AsyncOps => p.iwrite = PumpLen(p) /\ p.iread = PumpLen(p)
                /\ regs'.csmode = IF regs.csmode = CsOff THEN CsOff ELSE CsAuto
          /\ regs' # regs => p.pc \in {"frame", "end"}
          /\ (p'.pc = "done" /\ p.pc # "done") => p.pc = "end"
          /\ p.pc \in {"suspended", "tx", "rx", "end"} =>
                regs.csmode \in {CsHold, CsOff}]_vars

\* a cooperative write that was suspended at least once has completed and
\* left the per-word mode
C25_Witness ==
    /\ p.op = "async_write"
    /\ p.pc = "done"
    /\ p.iread = MaxLen
    /\ \E i \in DOMAIN p.log : i > 1 /\ p.log[i] = Acc("rrx", -1)
    /\ regs.csmode = CsAuto

(* ---------------- C26: the iterator-driven writes --------------------- *)
\* the accesses made in the loop: what follows the read of rxdata that
\* ended the drain
RECURSIVE LoopLog(_)
LoopLog(log) ==
    IF log = <<>> THEN <<>>
    ELSE IF Head(log) = Acc("rrx", -1) THEN Tail(log)
         ELSE LoopLog(Tail(log))

\* the number of bytes popped from the RX FIFO in the loop
RECURSIVE Popped(_)
Popped(log) ==
    IF log = <<>> THEN 0
    ELSE (IF Head(log)[1] = "rrx" /\ Head(log)[2] # -1 THEN 1 ELSE 0)
            + Popped(Tail(log))

\* the number of calls of iter.next() that returned None
RECURSIVE NoneCalls(_)
NoneCalls(log) ==
    IF log = <<>> THEN 0
    ELSE (IF Head(log) = Acc("next", -1) THEN 1 ELSE 0) + NoneCalls(Tail(log))

\* Spi::write_iter and Spi::async_write_iter
IterOps == {"spi_write_iter", "async_write_iter"}

InPlaceOps == {"transfer_in_place", "spi_transfer", "async_transfer"}

\* C27: in transfer_in_place, the legacy transfer and the cooperative
\* transfer, a received byte is stored into words[i] only after the original
\* words[i] has been pushed: at every point the bytes pushed are the first
\* iwrite bytes of the original buffer and every place from iread on still
\* holds its original byte, so what is sent is the original buffer, whatever
\* the readiness of the FIFOs.
C27_NoClobber ==
    p.op \in InPlaceOps =>
        /\ p.iread <= p.iwrite
        /\ Pushed(p.log) = SubSeq(arg.write, 1, p.iwrite)
        /\ \A i \in (p.iread + 1)..Len(p.words) : p.words[i] = arg.write[i]
        /\ p.pc = "done" => Pushed(p.log) = arg.write

\* an in-place transfer has returned: it sent its two different bytes as
\* they were and holds other bytes now
C27_Witness ==
    /\ p.op = "transfer_in_place"
    /\ p.pc = "done"
    /\ Len(arg.write) = MaxLen
    /\ arg.write[1] # arg.write[MaxLen]
    /\ Pushed(p.log) = arg.write
    /\ \A i \in 1..MaxLen : p.words[i] # arg.write[i]

(* ---------------- C28: what a blocking pump leaves behind ------------- *)
BlockingOps ==
    {"perform_transfer", "transfer_in_place", "spi_transfer", "spi_write",
     "spi_write_iter"}

\* the bytes popped from the RX FIFO, in order
RECURSIVE PoppedBytes(_)
PoppedBytes(log) ==
    IF log = <<>> THEN <<>>
    ELSE IF Head(log)[1] = "rrx" /\ Head(log)[2] # -1
         THEN <<Head(log)[2]>> \o PoppedBytes(Tail(log))
         ELSE PoppedBytes(Tail(log))

\* a blocking pump has returned
BlockingReturned == p.op \in BlockingOps /\ p.pc = "done"

\* pushes and pops balance: as many bytes popped in the loop as pushed, the
\* bytes pushed are the write buffer in index order, and the read buffer
\* holds the bytes popped in index order
Balanced ==
    LET popped == PoppedBytes(LoopLog(p.log))
    IN /\ Len(popped) = Len(Pushed(p.log))
       /\ Pushed(p.log) = arg.write
       /\ \A i \in 1..Len(p.words) : i <= Len(popped) => p.words[i] = popped[i]

\* C28 as stated: a blocking pump that has returned has popped as many
\* bytes as it pushed, pushed its buffer in index order, each byte once, and
\* stored the received bytes in index order; so a pump that started with
\* both FIFOs empty leaves both FIFOs empty.  (Nothing is pushed once the
\* pump has returned, so a byte found in the TX FIFO afterwards was there
\* when it returned; the RX FIFO, which the controller may still fill
\* afterwards, is left out of the test.)
C28_FifosLeftEmpty ==
    /\ BlockingReturned => Balanced
    /\ (BlockingReturned /\ arg.fifosempty) => txfifo = <<>>

\* C28 as the code has it: the balance holds for every returned blocking
\* pump, and the controller is left empty (both FIFOs and the shift
\* register) when the TX FIFO and the shift register were empty at the call;
\* what the RX FIFO held at the call does not matter, the drain removes it.
C28_Conservation ==
    /\ BlockingReturned => Balanced
    /\ (BlockingReturned /\ ~arg.inflight) =>
          txfifo = <<>> /\ shreg = <<>> /\ rxfifo = <<>>

\* a legacy write of two bytes, called with a byte waiting in the RX FIFO
\* and nothing in flight, has returned and left the controller empty
C28_Witness ==
    /\ p.op = "spi_write"
    /\ p.pc = "done"
    /\ ~arg.inflight
    /\ p.log[1] = Acc("rrx", 90)
    /\ Len(arg.write) = MaxLen
    /\ Len(PoppedBytes(LoopLog(p.log))) = MaxLen
    /\ txfifo = <<>> /\ shreg = <<>> /\ rxfifo = <<>>


(* ---------------- C29: the RX FIFO against the pump's pushes ---------- *)
\* the pumps the claim names: push while the TX FIFO is not full, pop while
\* iread < iwrite, no look at how many responses are outstanding
OverflowOps == {"perform_transfer", "spi_transfer"}

\* C29: in perform_transfer and the legacy transfer, started with nothing of
\* an earlier operation in the TX FIFO or the shift register, the number of
\* bytes pushed and not yet popped (iwrite - iread) never exceeds the depth
\* of the RX FIFO, and no response arrives at a full RX FIFO and is lost,
\* however many bytes the controller moves between two steps of the pump.
C29_NoReceiveOverflow ==
    (p.op \in OverflowOps /\ ~arg.inflight) =>
        /\ p.iwrite - p.iread <= FifoDepth
        /\ ~rxlost

\* a pump called on an idle controller whose own response was lost: more
\* bytes were pushed than the RX FIFO holds before the pump popped one
C29_Witness ==
    /\ p.op \in OverflowOps
    /\ ~arg.inflight
    /\ p.pc # "done"
    /\ p.iwrite = MaxLen
    /\ p.iread < p.iwrite
    /\ rxlost


(* ---------------- C30: reconfiguring with bytes pending --------------- *)
\* a Shared Device operation executes bus.configure
ReconfigureStep ==
    \E c \in Ctxs : ctx[c].pc = "configure" /\ ctx'[c].pc # "configure"

\* C30: whenever a Shared Device operation reconfigures the bus, the TX FIFO
\* is empty and no byte pushed by an earlier operation of any device is
\* still being shifted, for every sequence of operations of the two devices,
\* try_send followed by the other device's operation included.
C30_NoPendingAtConfigure ==
    [][ReconfigureStep => (txfifo = <<>> /\ shreg = <<>>)]_vars

\* device A's try_send has returned, the very next operation is device B's,
\* it has written B's configuration, and the byte A pushed is still in the
\* TX FIFO (nothing is pushed between configure and this point)
C30_Witness ==
    /\ ctx["main"].op = "try_send"
    /\ ctx["main"].pc = "idle"
    /\ ctx["isr"].txn = ctx["main"].txn + 1
    /\ ctx["isr"].pc \in {"start", "nb"}
    /\ last.name = "configure"
    /\ last.cs_index = <<CS_INDEX("B")>>
    /\ txfifo = ctx["main"].words


(* ------------------- the legacy Spi, from Spi::new on ----------------- *)
\* Spi::new(spi, pins, mode, freq, clocks) with div already computed: the
\* registers it writes (ie is not among them); cs_index is PINS::CS_INDEX,
\* <<>> for None
Spi_new(r, cs_index, phase, polarity, div) ==
    [r EXCEPT !.sckdiv = div,
              !.csid = IF cs_index # <<>> THEN cs_index[1] ELSE @,
              !.csmode = IF cs_index # <<>> THEN 2 ELSE 3,
              !.csdef = "reset", !.pha = phase, !.pol = polarity,
              !.fmt = [proto |-> "single", endian |-> "big", dir |-> "rx",
                       len |-> 8],
              !.txmark = 1, !.rxmark = 0,
              !.cssck = 1, !.sckcs = 1, !.intercs = 1, !.interxfr = 0]

\* The four watermark-interrupt calls, on the value of ie.  Each is
\* ie.write(|w| ...): the closure is given the reset value of the register,
\* not the value the register holds.
\* Spi::listen_tx_wm
listen_tx_wm(ie) == [RegsReset.ie EXCEPT !.txwm = TRUE]
\* Spi::listen_rx_wm
listen_rx_wm(ie) == [RegsReset.ie EXCEPT !.rxwm = TRUE]
\* Spi::unlisten_tx_wm
unlisten_tx_wm(ie) == [RegsReset.ie EXCEPT !.txwm = FALSE]
\* Spi::unlisten_rx_wm
unlisten_rx_wm(ie) == [RegsReset.ie EXCEPT !.rxwm = FALSE]

\* the register-only calls of the legacy Spi: the registers after the call
\* (end_transfer is cs_mode_word)
SpiRegWrite(name, r) ==
    CASE name = "cs_mode_word" -> [r EXCEPT !.csmode = cs_mode_word(@)]
      [] name = "cs_mode_frame" -> [r EXCEPT !.csmode = cs_mode_frame(@)]
      [] name = "end_transfer" -> [r EXCEPT !.csmode = cs_mode_word(@)]
      [] name = "listen_tx_wm" -> [r EXCEPT !.ie = listen_tx_wm(@)]
      [] name = "listen_rx_wm" -> [r EXCEPT !.ie = listen_rx_wm(@)]
      [] name = "unlisten_tx_wm" -> [r EXCEPT !.ie = unlisten_tx_wm(@)]
      [] name = "unlisten_rx_wm" -> [r EXCEPT !.ie = unlisten_rx_wm(@)]

\* one of them is called (&mut self: only while no blocking call runs);
\* `prior` keeps the value the register had when it was called
SpiRegCall(name) ==
    /\ p.pc = "done"
    /\ regs' = SpiRegWrite(name, regs)
    /\ last' = [NoCall EXCEPT
                  !.name = name,
                  !.prior = IF name \in {"cs_mode_word", "cs_mode_frame",
                                         "end_transfer"}
                            THEN regs.csmode ELSE regs.ie]
    /\ UNCHANGED <<txfifo, shreg, rxfifo, rxlost, wire, scn, arg, p, q, spins,
                   cfg, cpu, mie, borrowed, ctx, ops, acclog>>

\* transfer, write or write_iter is called
SpiCall ==
    /\ p.pc = "done"
    /\ ops < MaxOps
    /\ \E s \in SpiOps, w \in DevWords :
          /\ p' = PumpCall(s, <<>>, w)
          /\ arg' = [arg EXCEPT !.write = w,
                                !.inflight = shreg # <<>> \/ txfifo # <<>>,
                                !.fifosempty = txfifo = <<>> /\ rxfifo = <<>>]
          /\ last' = [NoCall EXCEPT !.name = s, !.prior = regs.csmode]
    /\ ops' = ops + 1
    /\ spins' = 0
    /\ UNCHANGED <<regs, txfifo, shreg, rxfifo, rxlost, wire, scn, q, cfg, cpu,
                   mie, borrowed, ctx, acclog>>

\* the state Spi::new returns in: the controller out of reset and idle,
\* the registers as the constructor wrote them
InitSpi ==
    /\ scn = "legacy"
    /\ \E cs_index \in {<<>>, <<0>>, <<2>>}, phase \in BOOLEAN :
          /\ arg = [read |-> <<>>, write |-> <<>>, inflight |-> FALSE,
                    fifosempty |-> TRUE, cs_index |-> cs_index]
          \* MODE_0 or MODE_3, and a divisor the clocks in use give
          /\ regs = Spi_new(RegsReset, cs_index, phase, phase, 7)
    /\ txfifo = <<>>
    /\ shreg = <<>>
    /\ rxfifo = <<>>
    /\ rxlost = FALSE
    /\ wire = "loopback"
    /\ p = NoPump
    /\ q = NoPump
    /\ spins = 0
    /\ cfg = [d \in Devs |-> ConfigA]
    /\ cpu = "main"
    /\ mie = TRUE
    /\ borrowed = FALSE
    /\ ctx = [c \in Ctxs |-> CtxIdle]
    /\ ops = 0
    /\ acclog = <<>>
    /\ last = [NoCall EXCEPT !.name = "Spi::new", !.prior = RegsReset.csmode]

NextSpi ==
    \/ SpiCall
    \/ PumpWait
    \/ PumpFrame
    \/ PumpTx
    \/ PumpRx
    \/ PumpEnd
    \/ \E name \in {"cs_mode_word", "cs_mode_frame", "end_transfer"} :
          SpiRegCall(name)
    \/ \E name \in {"listen_tx_wm", "listen_rx_wm", "unlisten_tx_wm",
                    "unlisten_rx_wm"} : SpiRegCall(name)
    \/ HwShiftOut
    \/ HwShiftIn

SpecSpi == InitSpi /\ [][NextSpi]_vars

(* ---------------- C31: csmode of the legacy Spi when idle ------------- *)
\* no blocking call of the legacy Spi is running
SpiIdle == p.pc = "done"

\* the calls that end with cs_mode_word
EndsInWordMode == SpiOps \cup {"cs_mode_word", "end_transfer"}

\* C31 as stated: whenever no transfer, write or write_iter is in progress,
\* the state right after Spi::new included, csmode holds 0 (per-word) or
\* 3 (Off); it holds the frame value 2 only while a transfer is in progress.
C31_IdleWhenNoTransfer ==
    SpiIdle => regs.csmode \in {CsAuto, CsOff}

\* C31 as the code has it: Spi::new leaves csmode at 2 (or 3 without a
\* chip-select pin); with no transfer in progress the frame value 2 appears
\* only by a call of cs_mode_frame and otherwise only stays from the state
\* before; once transfer, write, write_iter, cs_mode_word or end_transfer has
\* returned csmode holds 0 or 3; inside the loop of a transfer it holds 2
\* or 3.
C31_IdleAfterTransfer ==
    /\ [](last.name = "Spi::new" => regs.csmode \in {CsHold, CsOff})
    /\ []((SpiIdle /\ last.name \in EndsInWordMode) =>
              regs.csmode \in {CsAuto, CsOff})
    /\ [](p.pc \in {"tx", "rx", "end"} => regs.csmode \in {CsHold, CsOff})
    /\ [][(SpiIdle' /\ regs'.csmode = CsHold) =>
              \/ SpiIdle /\ regs.csmode = CsHold
              \/ last'.name = "cs_mode_frame" /\ last' # last]_vars

\* a legacy transfer of the longest buffer has returned on a Spi with a
\* chip-select pin, and csmode is back at 0
C31_Witness ==
    /\ scn = "legacy"
    /\ arg.cs_index # <<>>
    /\ last.name = "spi_transfer"
    /\ p.pc = "done"
    /\ p.iread = MaxLen
    /\ regs.csmode = CsAuto


(* ---------------- C32: the legacy chip-select encodings --------------- *)
\* the call `name` of the legacy Spi is executed
SpiCallStep(name) == last'.name = name /\ last' # last

\* C32: cs_mode_word writes 0 and cs_mode_frame writes 2 to csmode only when
\* it is not 3 (Off), and leave 3 as it is, called directly, through
\* end_transfer or from inside transfer, write and write_iter; so a legacy
\* Spi constructed without a chip-select pin starts at 3 and keeps 3 through
\* every sequence of those calls.
C32_LegacyEncodings ==
    /\ [][(SpiCallStep("cs_mode_word") \/ SpiCallStep("end_transfer")
           \/ (p.pc = "end" /\ p'.pc = "done")) =>
             regs'.csmode = IF regs.csmode # 3 THEN 0 ELSE 3]_vars
    /\ [][(SpiCallStep("cs_mode_frame") \/ (p.pc = "frame" /\ p'.pc # "frame")) =>
             regs'.csmode = IF regs.csmode # 3 THEN 2 ELSE 3]_vars
    /\ [][regs.csmode = 3 => regs'.csmode = 3]_vars
    /\ [](arg.cs_index = <<>> => regs.csmode = 3)

\* a Spi without a chip-select pin has run a write of the longest buffer to
\* its end and then been told cs_mode_frame: csmode is still 3
C32_Witness ==
    /\ scn = "legacy"
    /\ arg.cs_index = <<>>
    /\ p.op = "spi_write"
    /\ p.pc = "done"
    /\ p.iread = MaxLen
    /\ last.name = "cs_mode_frame"
    /\ last.prior = 3
    /\ regs.csmode = 3


(* ---------------- C33: a controller that does not shift --------------- *)
\* the pumps on a controller whose clock is not running: what is in the TX
\* FIFO stays there and nothing arrives in the RX FIFO
SpecStalled ==
    InitPump /\ [][PumpWait \/ PumpFrame \/ Poll \/ PumpTx \/ PumpRx
                   \/ PumpEnd \/ PumpFlush]_vars

\* the call was given a buffer that is not empty
NonEmptyCall == Max(Len(arg.read), Len(arg.write)) > 0

\* C33: when the controller never reports the FIFO condition the pump waits
\* for (the RX FIFO stays empty after a push, or the TX FIFO stays full), a
\* blocking pump given a non-empty buffer never returns and a cooperative
\* one never reports completion, however often it is polled: no path gives
\* up.
C33_NoTimeout ==
    NonEmptyCall => (p.pc # "done" /\ p.ret = "none")

\* a cooperative transfer that has pushed a byte, found the RX FIFO empty,
\* called the waker and suspended, and is being polled again with nothing
\* received
C33_Witness ==
    /\ p.op = "async_transfer"
    /\ p.polled
    /\ p.pc \in {"tx", "rx"}
    /\ p.entry[1] > 0
    /\ spins = MaxSpin
    /\ p.iread = 0
    /\ txfifo # <<>>
    /\ rxfifo = <<>>


(* ---------------- C34: the clock divisor of Spi::new ------------------ *)
\* `clocks.tlclk().0 / (2 * freq.0) - 1` on unsigned words of WordBits bits.
\* With overflow checks (a debug build) an overflowing `2 * freq` or `- 1`
\* panics, without them (a release build) it wraps; a division by zero
\* panics in every build.  The result is the value of div, or -1 for a
\* panic.
Spi_new_div(tlclk, freq, overflow_checks) ==
    LET modulus == 2 ^ WordBits
        twice == 2 * freq
        divisor == twice % modulus
        quotient == tlclk \div divisor
    IN IF twice >= modulus /\ overflow_checks THEN -1
       ELSE IF divisor = 0 THEN -1
       ELSE IF quotient = 0 THEN (IF overflow_checks THEN -1 ELSE modulus - 1)
       ELSE quotient - 1

\* Spi::new is called: it panics, or writes the registers
SpiNew ==
    /\ last = NoCall
    /\ cpu = "main"
    /\ LET div == Spi_new_div(arg.tlclk, arg.freq, arg.overflow_checks)
       IN IF div = -1
          THEN cpu' = "halt" /\ regs' = regs
          ELSE /\ cpu' = cpu
               /\ regs' = Spi_new(regs, arg.cs_index, arg.phase, arg.phase, div)
    /\ last' = [NoCall EXCEPT !.name = "Spi::new", !.prior = regs.csmode]
    /\ UNCHANGED <<txfifo, shreg, rxfifo, rxlost, wire, scn, arg, p, q, spins,
                   cfg, mie, borrowed, ctx, ops, acclog>>

\* the controller at reset, and the arguments Spi::new is about to be given:
\* any bus clock and any target frequency of at least 1
InitNew ==
    /\ scn = "new"
    /\ \E tlclk \in 1..(2 ^ WordBits - 1), freq \in 1..(2 ^ WordBits - 1),
          checks \in BOOLEAN, cs_index \in {<<>>, <<0>>} :
          arg = [read |-> <<>>, write |-> <<>>, inflight |-> FALSE,
                 fifosempty |-> TRUE, cs_index |-> cs_index, phase |-> FALSE,
                 tlclk |-> tlclk, freq |-> freq, overflow_checks |-> checks]
    /\ regs = RegsReset
    /\ txfifo = <<>>
    /\ shreg = <<>>
    /\ rxfifo = <<>>
    /\ rxlost = FALSE
    /\ wire = "loopback"
    /\ p = NoPump
    /\ q = NoPump
    /\ spins = 0
    /\ cfg = [d \in Devs |-> ConfigA]
    /\ SysIdle

SpecNew == InitNew /\ [][SpiNew]_vars

\* C34: Spi::new writes base_clock / (2 x target_clock) - 1, in integer
\* division, to the clock divisor register, and for every target frequency
\* >= 1 and every base clock >= 1 the computation neither divides by zero
\* nor wraps below zero: the call returns and the register holds that
\* value, which is not negative.
C34_DivisorSafe ==
    last.name = "Spi::new" =>
        /\ cpu # "halt"
        /\ regs.sckdiv = (arg.tlclk \div (2 * arg.freq)) - 1
        /\ regs.sckdiv >= 0

\* a build without overflow checks, a target frequency above half the bus
\* clock: the quotient is 0, the subtraction wraps, and the register holds
\* the largest word
C34_Witness ==
    /\ last.name = "Spi::new"
    /\ ~arg.overflow_checks
    /\ arg.tlclk >= 1 /\ arg.freq >= 1
    /\ 2 * arg.freq < 2 ^ WordBits
    /\ arg.tlclk < 2 * arg.freq
    /\ cpu = "main"
    /\ regs.sckdiv = 2 ^ WordBits - 1


(* ----------------------- one PWM control group ------------------------ *)
\* In this part `regs` holds the registers of a PWM group: cfg (the two
\* enable bits the driver names, and scale standing for the rest of the
\* word) and the comparators of channels 1 to 3.  `reg.reset()` and the
\* closure of `reg.write(|w| ...)` start from the reset value, 0.

\* Pwm::disable(channel)
Pwm_disable(r, channel) == [r EXCEPT !.cmp[channel] = 0]

\* Pwm::enable(channel): two writes of cfg, one of the comparator
Pwm_enable(r, channel) ==
    LET cfg_reset == [zerocmp |-> FALSE, enalways |-> FALSE, scale |-> 0]
        r1 == [r EXCEPT !.cfg = [cfg_reset EXCEPT !.zerocmp = TRUE]]
        r2 == [r1 EXCEPT !.cfg = [cfg_reset EXCEPT !.enalways = TRUE]]
    IN [r2 EXCEPT !.cmp[channel] = 1]

\* PwmPin::disable of the pin of that channel
PwmPin_disable(r, channel) == Pwm_disable(r, channel)

\* PwmPin::enable of the pin of that channel
PwmPin_enable(r, channel) == Pwm_disable(r, channel)

\* one of the four is called; `prior` keeps the registers as the call found
\* them and the channel it was given
PwmCall(name) ==
    /\ \E channel \in 1..3 :
          /\ regs' = CASE name = "Pwm::disable" -> Pwm_disable(regs, channel)
                       [] name = "Pwm::enable" -> Pwm_enable(regs, channel)
                       [] name = "PwmPin::disable" -> PwmPin_disable(regs, channel)
                       [] name = "PwmPin::enable" -> PwmPin_enable(regs, channel)
          /\ last' = [NoCall EXCEPT !.name = name,
                                    !.prior = [regs |-> regs, channel |-> channel]]
    /\ UNCHANGED <<txfifo, shreg, rxfifo, rxlost, wire, scn, arg, p, q, spins,
                   cfg, cpu, mie, borrowed, ctx, ops, acclog>>

\* the group as earlier code (set_duty, set_period, other drivers) may have
\* left it
InitPwm ==
    /\ scn = "pwm"
    /\ regs \in [cfg : [zerocmp : BOOLEAN, enalways : BOOLEAN, scale : {0, 3}],
                 cmp : [1..3 -> {0, 5}]]
    /\ txfifo = <<>>
    /\ shreg = <<>>
    /\ rxfifo = <<>>
    /\ rxlost = FALSE
    /\ wire = "loopback"
    /\ arg = [read |-> <<>>, write |-> <<>>, inflight |-> FALSE,
             fifosempty |-> TRUE]
    /\ p = NoPump
    /\ q = NoPump
    /\ spins = 0
    /\ cfg = [d \in Devs |-> ConfigA]
    /\ SysIdle

SpecPwm ==
    InitPwm /\ [][\/ PwmCall("Pwm::disable")
                  \/ PwmCall("Pwm::enable")
                  \/ PwmCall("PwmPin::disable")
                  \/ PwmCall("PwmPin::enable")]_vars

(* ---------------- C35: what Pwm::enable leaves in cfg ----------------- *)
\* C35: after Pwm::enable(channel) the configuration register has the
\* zerocmp bit set together with the enalways bit, and the comparator of
\* the channel holds 1.
C35_EnableSetsZeroCmp ==
    last.name = "Pwm::enable" =>
        /\ regs.cfg.zerocmp
        /\ regs.cfg.enalways
        /\ regs.cmp[last.prior.channel] = 1

\* Pwm::enable has returned on a group whose zerocmp bit was set before:
\* enalways is set, the comparator holds 1, and zerocmp is clear
C35_Witness ==
    /\ last.name = "Pwm::enable"
    /\ last.prior.regs.cfg.zerocmp
    /\ regs.cfg.enalways
    /\ regs.cmp[last.prior.channel] = 1
    /\ ~regs.cfg.zerocmp

(* ---------------- C36: the pin against its group ---------------------- *)
\* C36: PwmPin::enable has the same effect on the registers as Pwm::enable
\* of the pin's group with the pin's channel, and PwmPin::disable the same
\* as Pwm::disable; after PwmPin::enable the comparator of the channel,
\* which get_duty returns, is not the reset (disabled) value.
C36_PinMatchesGroup ==
    /\ last.name = "PwmPin::enable" =>
          /\ regs = Pwm_enable(last.prior.regs, last.prior.channel)
          /\ regs.cmp[last.prior.channel] # 0
    /\ last.name = "PwmPin::disable" =>
          regs = Pwm_disable(last.prior.regs, last.prior.channel)

\* PwmPin::enable has returned on a channel that had a duty set: the
\* comparator is back at its reset value and cfg is as it was
C36_Witness ==
    /\ last.name = "PwmPin::enable"
    /\ last.prior.regs.cmp[last.prior.channel] = 5
    /\ regs.cmp[last.prior.channel] = 0
    /\ regs.cfg = last.prior.regs.cfg
    /\ ~regs.cfg.enalways


(* ---------------- C37: the watermark interrupt enables ---------------- *)
\* C37: listen_tx_wm and unlisten_tx_wm change only the transmit-watermark
\* enable bit of ie (to set, to clear) and listen_rx_wm and unlisten_rx_wm
\* only the receive-watermark bit, the other bit staying as the call found
\* it; so after listen_tx_wm followed by listen_rx_wm, in either order, both
\* interrupts are enabled.
C37_IndependentEnables ==
    /\ last.name \in {"listen_tx_wm", "unlisten_tx_wm"} =>
          /\ regs.ie.txwm = (last.name = "listen_tx_wm")
          /\ regs.ie.rxwm = last.prior.rxwm
    /\ last.name \in {"listen_rx_wm", "unlisten_rx_wm"} =>
          /\ regs.ie.rxwm = (last.name = "listen_rx_wm")
          /\ regs.ie.txwm = last.prior.txwm

\* listen_rx_wm has returned, called when the transmit-watermark interrupt
\* was enabled (by listen_tx_wm, which alone sets it): the receive one is
\* enabled and the transmit one no longer is
C37_Witness ==
    /\ scn = "legacy"
    /\ last.name = "listen_rx_wm"
    /\ last.prior.txwm
    /\ regs.ie.rxwm
    /\ ~regs.ie.txwm


(* ---------------- C38: the divisor configure writes ------------------- *)
\* C38: configure writes config.clock_divisor reduced modulo 2^16 to the
\* clock divisor register whatever its value (no range check: every call
\* writes), so for every clock_divisor below 2^16 the register holds
\* clock_divisor itself.
C38_DivisorPassThrough ==
    [][ConfigureStep =>
          LET d == last'.config.clock_divisor
          IN /\ regs'.sckdiv = d % 65536
             /\ d < 65536 => regs'.sckdiv = d]_vars

\* configure has been given a divisor of 2^16 + 7 and the register holds 7
C38_Witness ==
    /\ scn = "bus"
    /\ last.name = "configure"
    /\ last.config.clock_divisor = 65543
    /\ regs.sckdiv = 7

====
